---- MODULE Spec2Model ----
(***************************************************************************)
(* Red-black interval tree of include/algo/interval_tree.hpp               *)
(* (algo::IntervalTree) and its merge-on-overlap client test::Solution.    *)
(*                                                                         *)
(* Nodes are heap cells, NULL is the null pointer.  A tree value t is the  *)
(* record of the object's memory: root_ and one function per field of      *)
(* IntervalTreeNode.  Every method is an operator from tree values to tree *)
(* values that applies the statements of the C++ body in their order, each *)
(* statement being an operator of its own; every loop is a RECURSIVE       *)
(* operator over the loop's variables.                                     *)
(***************************************************************************)
EXTENDS Integers, Sequences, FiniteSets, TLC

\* ---------------------------------------------------------------- bounds
MaxNodes == 4            \* allocations in a run of Spec and of SpecMerge
MaxVal == 1              \* Spec: interval endpoints range over 0..MaxVal
MaxDeepNodes == 5        \* allocations in a run of SpecDeep
MaxDeepVal == 2          \* SpecDeep, SpecMerge: endpoints range over 0..MaxDeepVal
MaxOverlapVal == 5       \* SpecOverlap: endpoints range over 0..MaxOverlapVal
MaxBstNodes == 5         \* allocations in a run of SpecBST
MaxBstKey == 2           \* SpecBST: keys range over 0..MaxBstKey
MaxLoopNodes == 7        \* SpecSteps: allocations in a run on one interval value
MaxStepNodes == 3        \* SpecSteps: allocations in a run on several values
MaxStepVal == 1          \* SpecSteps: endpoints range over 0..MaxStepVal

\* ------------------------------------------------------------- constants
NULL == 0                   \* nullptr
IntMin == -2147483647 - 1   \* std::numeric_limits<int>::min()

Max2(a, b) == IF a >= b THEN a ELSE b
Min2(a, b) == IF a <= b THEN a ELSE b

\* addresses of the heap cells `new IntervalTreeNode` can return
Nodes == 1..Max2(Max2(Max2(MaxNodes, MaxDeepNodes), MaxBstNodes), MaxLoopNodes)

\* class Interval: the well-formed values (low_ <= high_) with endpoints up to top
IntervalsUpTo(top) == {iv \in [low_ : 0..top, high_ : 0..top] : iv.low_ <= iv.high_}

Interval == IntervalsUpTo(Max2(MaxVal, MaxDeepVal))

\* Interval's default member initialisers
DefaultInterval == [low_ |-> 0, high_ |-> 0]

\* fault variant of overlap: both comparisons strict, as for open intervals
overlap_strict(a, b) == a.low_ < b.high_ /\ b.low_ < a.high_

\* fault variant of overlap: the test of the other side is forgotten
overlap_low_only(a, b) == a.low_ <= b.high_

\* Interval::overlap
overlap(a, b) == a.low_ <= b.high_ /\ b.low_ <= a.high_

\* IntervalTreeNode::key / Interval::key
key(t, n) == t.interval_[n].low_

\* IntervalTree() = default : no root, no node allocated
EmptyTree ==
    [ root_     |-> NULL,
      left_     |-> [n \in Nodes |-> NULL],
      right_    |-> [n \in Nodes |-> NULL],
      parent_   |-> [n \in Nodes |-> NULL],
      max_      |-> [n \in Nodes |-> 0],
      is_red_   |-> [n \in Nodes |-> TRUE],
      interval_ |-> [n \in Nodes |-> DefaultInterval],
      heap      |-> {},      \* cells allocated and not yet deleted
      allocated |-> 0 ]      \* cells handed out so far

\* ------------------------------------------------- assignments to a field
set_root(t, v)      == [t EXCEPT !.root_ = v]
set_left(t, n, v)   == [t EXCEPT !.left_[n] = v]
set_right(t, n, v)  == [t EXCEPT !.right_[n] = v]
set_parent(t, n, v) == [t EXCEPT !.parent_[n] = v]
set_max(t, n, v)    == [t EXCEPT !.max_[n] = v]
set_red(t, n, b)    == [t EXCEPT !.is_red_[n] = b]

\* if (n) n->parent_ = v;
set_parent_if(t, n, v) == IF n # NULL THEN set_parent(t, n, v) ELSE t

\* the parent's link to u (or root_) is redirected to v; the test of the left
\* side comes first, as in transplant and left_rotate
replace_child(t, u, v) ==
    IF t.parent_[u] = NULL
    THEN set_root(t, v)
    ELSE IF u = t.left_[t.parent_[u]]
         THEN set_left(t, t.parent_[u], v)
         ELSE set_right(t, t.parent_[u], v)

\* the same with the test of the right side first, as in right_rotate
replace_child_right_first(t, u, v) ==
    IF t.parent_[u] = NULL
    THEN set_root(t, v)
    ELSE IF u = t.right_[t.parent_[u]]
         THEN set_right(t, t.parent_[u], v)
         ELSE set_left(t, t.parent_[u], v)

\* ------------------------------------------------------------- rotations
\* if (c && c->max_ > x->max_) x->max_ = c->max_;
pull_max(t, x, c) ==
    IF c # NULL /\ t.max_[c] > t.max_[x] THEN set_max(t, x, t.max_[c]) ELSE t

\* fault variant of rotate_max: x->max_ is not rebuilt
rotate_max_x_stale(t, x, y) == set_max(t, y, t.max_[x])

\* the max_ refresh that ends both rotations: y takes x's old max_, then x's
\* max_ is rebuilt from its interval and its children
rotate_max(t, x, y) ==
    pull_max(pull_max(set_max(set_max(t, y, t.max_[x]), x, t.interval_[x].high_),
                      x, t.left_[x]),
             x, t.right_[x])

left_rotate(t, x) ==
    LET y == t.right_[x]
        c == t.left_[y]
    IN  rotate_max(
            set_parent(
                set_left(
                    replace_child(
                        set_parent(set_parent_if(set_right(t, x, c), c, x),
                                   y, t.parent_[x]),
                        x, y),
                    y, x),
                x, y),
            x, y)

right_rotate(t, x) ==
    LET y == t.left_[x]
        c == t.right_[y]
    IN  rotate_max(
            set_parent(
                set_right(
                    replace_child_right_first(
                        set_parent(set_parent_if(set_left(t, x, c), c, x),
                                   y, t.parent_[x]),
                        x, y),
                    y, x),
                x, y),
            x, y)

\* ---------------------------------------------------------------- insert
\* fault variant of recolor_uncle: the parent is left red
recolor_uncle_parent_red(t, node, uncle) ==
    set_red(set_red(t, uncle, FALSE), t.parent_[t.parent_[node]], TRUE)

\* red uncle: parent and uncle become black, the grandparent red
recolor_uncle(t, node, uncle) ==
    set_red(set_red(set_red(t, t.parent_[node], FALSE), uncle, FALSE),
            t.parent_[t.parent_[node]], TRUE)

\* fault variant of insert_outer_left: the parent is left red
insert_outer_left_parent_red(t, node) ==
    IF t.parent_[t.parent_[node]] # NULL
    THEN right_rotate(set_red(t, t.parent_[t.parent_[node]], TRUE),
                      t.parent_[t.parent_[node]])
    ELSE t

\* node is an outer child on the left: parent black, grandparent (if any) red
\* and rotated to the right
insert_outer_left(t, node) ==
    IF t.parent_[t.parent_[node]] # NULL
    THEN right_rotate(set_red(set_red(t, t.parent_[node], FALSE),
                              t.parent_[t.parent_[node]], TRUE),
                      t.parent_[t.parent_[node]])
    ELSE set_red(t, t.parent_[node], FALSE)

\* the mirror image
insert_outer_right(t, node) ==
    IF t.parent_[t.parent_[node]] # NULL
    THEN left_rotate(set_red(set_red(t, t.parent_[node], FALSE),
                             t.parent_[t.parent_[node]], TRUE),
                     t.parent_[t.parent_[node]])
    ELSE set_red(t, t.parent_[node], FALSE)

\* black or absent uncle, the parent is a left child: an inner node is first
\* rotated outward and the loop goes on from its former parent; the second
\* rotation works on the tree u that the first one left
insert_case_left(t, node) ==
    IF node = t.right_[t.parent_[node]]
    THEN CHOOSE r \in {insert_outer_left(u, t.parent_[node]) :
                         u \in {left_rotate(t, t.parent_[node])}} : TRUE
    ELSE insert_outer_left(t, node)

node_after_case_left(t, node) ==
    IF node = t.right_[t.parent_[node]] THEN t.parent_[node] ELSE node

\* black or absent uncle, the parent is a right child
insert_case_right(t, node) ==
    IF node = t.left_[t.parent_[node]]
    THEN CHOOSE r \in {insert_outer_right(u, t.parent_[node]) :
                         u \in {right_rotate(t, t.parent_[node])}} : TRUE
    ELSE insert_outer_right(t, node)

node_after_case_right(t, node) ==
    IF node = t.left_[t.parent_[node]] THEN t.parent_[node] ELSE node

\* the while loop of rb_insert_fixup
RECURSIVE insert_fixup_loop(_, _)
insert_fixup_loop(t, node) ==
    IF ~(t.parent_[node] # NULL /\ t.is_red_[t.parent_[node]])
    THEN t
    ELSE LET g == t.parent_[t.parent_[node]]
         IN  IF t.parent_[node] = t.left_[g]
             THEN IF t.right_[g] # NULL /\ t.is_red_[t.right_[g]]
                  THEN insert_fixup_loop(recolor_uncle(t, node, t.right_[g]), g)
                  ELSE insert_fixup_loop(insert_case_left(t, node),
                                         node_after_case_left(t, node))
             ELSE IF t.left_[g] # NULL /\ t.is_red_[t.left_[g]]
                  THEN insert_fixup_loop(recolor_uncle(t, node, t.left_[g]), g)
                  ELSE insert_fixup_loop(insert_case_right(t, node),
                                         node_after_case_right(t, node))

\* fault variant of blacken_root: the root keeps its colour
blacken_root_skipped(t) == t

\* root_->is_red_ = false;
blacken_root(t) == set_red(t, t.root_, FALSE)

\* fault variant of rb_insert_fixup: the final root_->is_red_ = false is lost
rb_insert_fixup_root_kept(t, node) == insert_fixup_loop(t, node)

rb_insert_fixup(t, node) == blacken_root(insert_fixup_loop(t, node))

\* `new IntervalTreeNode()` : the allocator hands out the next cell it has
\* never handed out
NewNode(t) == t.allocated + 1

\* the new node: default member initialisers, then interval_ and max_
new_node(t, iv) ==
    [t EXCEPT !.heap = @ \cup {NewNode(t)},
              !.allocated = @ + 1,
              !.interval_[NewNode(t)] = iv,
              !.max_[NewNode(t)] = iv.high_]

\* fault variant of insert_descend: the visited max_ are not raised
RECURSIVE insert_descend_max_kept(_, _, _, _)
insert_descend_max_kept(t, node, parent, iv) ==
    IF node = NULL
    THEN [t |-> t, parent |-> parent]
    ELSE IF iv.low_ < key(t, node)
         THEN insert_descend_max_kept(t, t.left_[node], node, iv)
         ELSE insert_descend_max_kept(t, t.right_[node], node, iv)

\* fault variant of insert_descend: an equal low endpoint descends left
RECURSIVE insert_descend_ties_left(_, _, _, _)
insert_descend_ties_left(t, node, parent, iv) ==
    IF node = NULL
    THEN [t |-> t, parent |-> parent]
    ELSE IF iv.low_ <= key(t, node)
         THEN insert_descend_ties_left(set_max(t, node, Max2(t.max_[node], iv.high_)),
                                       t.left_[node], node, iv)
         ELSE insert_descend_ties_left(set_max(t, node, Max2(t.max_[node], iv.high_)),
                                       t.right_[node], node, iv)

\* the descent loop of insert: the tree with the visited max_ raised, and the
\* insertion parent
RECURSIVE insert_descend(_, _, _, _)
insert_descend(t, node, parent, iv) ==
    IF node = NULL
    THEN [t |-> t, parent |-> parent]
    ELSE IF iv.low_ < key(t, node)
         THEN insert_descend(set_max(t, node, Max2(t.max_[node], iv.high_)),
                             t.left_[node], node, iv)
         ELSE insert_descend(set_max(t, node, Max2(t.max_[node], iv.high_)),
                             t.right_[node], node, iv)

\* fault variant of insert_link: the side test is inverted
insert_link_inverted(t, newNode, parent) ==
    IF parent = NULL
    THEN set_root(set_parent(t, newNode, parent), newNode)
    ELSE IF key(t, newNode) > key(t, parent)
         THEN set_left(set_parent(t, newNode, parent), parent, newNode)
         ELSE set_right(set_parent(t, newNode, parent), parent, newNode)

\* linking the new node under the found parent
insert_link(t, newNode, parent) ==
    IF parent = NULL
    THEN set_root(set_parent(t, newNode, parent), newNode)
    ELSE IF key(t, newNode) < key(t, parent)
         THEN set_left(set_parent(t, newNode, parent), parent, newNode)
         ELSE set_right(set_parent(t, newNode, parent), parent, newNode)

\* the link applied to what the descent returned
insert_below(d, newNode) == insert_link(d.t, newNode, d.parent)

insert(t, iv) ==
    rb_insert_fixup(
        insert_below(insert_descend(new_node(t, iv), t.root_, NULL, iv), NewNode(t)),
        NewNode(t))

\* ---------------------------------------------------------------- search
\* fault variant of the search loop: the left subtree is entered only when
\* its max_ is strictly above the query's low endpoint
RECURSIVE search_loop_strict(_, _, _)
search_loop_strict(t, node, iv) ==
    IF ~(node # NULL /\ ~overlap(t.interval_[node], iv))
    THEN node
    ELSE IF t.left_[node] # NULL /\ t.max_[t.left_[node]] > iv.low_
         THEN search_loop_strict(t, t.left_[node], iv)
         ELSE search_loop_strict(t, t.right_[node], iv)

RECURSIVE search_loop(_, _, _)
search_loop(t, node, iv) ==
    IF ~(node # NULL /\ ~overlap(t.interval_[node], iv))
    THEN node
    ELSE IF t.left_[node] # NULL /\ t.max_[t.left_[node]] >= iv.low_
         THEN search_loop(t, t.left_[node], iv)
         ELSE search_loop(t, t.right_[node], iv)

search(t, iv) == search_loop(t, t.root_, iv)

\* ---------------------------------------------------------------- remove
RECURSIVE minimum(_, _)
minimum(t, node) ==
    IF t.left_[node] # NULL THEN minimum(t, t.left_[node]) ELSE node

\* fault variant of transplant: a non-root u is always unlinked on the left
transplant_left_only(t, u, v) ==
    set_parent_if(IF t.parent_[u] = NULL
                  THEN set_root(t, v)
                  ELSE set_left(t, t.parent_[u], v),
                  v, t.parent_[u])

\* fault variant of transplant: v's parent_ is left as it was
transplant_parent_kept(t, u, v) == replace_child(t, u, v)

transplant(t, u, v) == set_parent_if(replace_child(t, u, v), v, t.parent_[u])

\* fault variant of remove_z_max: the placeholder is written whatever
\* children z has
remove_z_max_placeholder(t, z) == set_max(t, z, IntMin)

\* z->max_ is first set to what z's children contribute
remove_z_max(t, z) ==
    IF t.left_[z] # NULL /\ t.right_[z] # NULL
    THEN set_max(t, z, Max2(t.max_[t.left_[z]], t.max_[t.right_[z]]))
    ELSE IF t.left_[z] # NULL
         THEN set_max(t, z, t.max_[t.left_[z]])
         ELSE IF t.right_[z] # NULL
              THEN set_max(t, z, t.max_[t.right_[z]])
              ELSE set_max(t, z, IntMin)

\* fault variant of push_max: the child's max_ is taken as it is
push_max_overwrite(t, i, c) ==
    IF c # NULL THEN set_max(t, i, t.max_[c]) ELSE t

\* if (c) i->max_ = std::max(i->max_, c->max_);
push_max(t, i, c) ==
    IF c # NULL THEN set_max(t, i, Max2(t.max_[i], t.max_[c])) ELSE t

\* fault variant of refresh_max: the right child is not looked at
refresh_max_left_only(t, i) ==
    push_max(set_max(t, i, t.interval_[i].high_), i, t.left_[i])

\* the body of the `while (i)` walk: i->max_ from i's interval and children
refresh_max(t, i) ==
    push_max(push_max(set_max(t, i, t.interval_[i].high_), i, t.left_[i]),
             i, t.right_[i])

\* the `while (i)` walk of remove, from i up to the root
RECURSIVE remove_walk_up(_, _)
remove_walk_up(t, i) ==
    IF i = NULL THEN t ELSE remove_walk_up(refresh_max(t, i), t.parent_[i])

\* successor->max_ = z->max_;
copy_max(t, successor, z) == set_max(t, successor, t.max_[z])

\* the max_ maintenance remove performs before it relinks anything
remove_update_max(t, z) ==
    IF t.left_[z] # NULL /\ t.right_[z] # NULL
    THEN copy_max(remove_walk_up(remove_z_max(t, z),
                                 t.parent_[minimum(t, t.right_[z])]),
                  minimum(t, t.right_[z]), z)
    ELSE remove_walk_up(remove_z_max(t, z), t.parent_[z])

\* y->right_ = z->right_; y->right_->parent_ = y;
graft_right(t, z, y) == set_parent(set_right(t, y, t.right_[z]), t.right_[z], y)

\* fault variant of graft_left: z's left subtree is not handed to y
graft_left_dropped(t, z, y) == t

\* y->left_ = z->left_; y->left_->parent_ = y;
graft_left(t, z, y) == set_parent(set_left(t, y, t.left_[z]), t.left_[z], y)

\* y is taken out of z's right subtree, unless it is z's right child itself
detach_successor(t, z, y) ==
    IF y # t.right_[z]
    THEN graft_right(transplant(t, y, t.right_[y]), z, y)
    ELSE set_parent_if(t, t.right_[y], y)

\* fault variant of copy_color: y keeps its own colour
copy_color_dropped(t, y, z) == t

\* y->is_red_ = z->is_red_;
copy_color(t, y, z) == set_red(t, y, t.is_red_[z])

\* the two-children branch: y = minimum(z->right_) takes z's place and colour
splice_successor(t, z, y) ==
    copy_color(graft_left(transplant(detach_successor(t, z, y), z, y), z, y), y, z)

\* the node y that is spliced out, its colour, and the node x that moves into
\* its place, as remove reads them before it relinks
spliced_y(t, z) ==
    IF t.left_[z] # NULL /\ t.right_[z] # NULL THEN minimum(t, t.right_[z]) ELSE z

spliced_color(t, z) == t.is_red_[spliced_y(t, z)]

spliced_x(t, z) ==
    IF t.left_[z] = NULL
    THEN t.right_[z]
    ELSE IF t.right_[z] = NULL
         THEN t.left_[z]
         ELSE t.right_[spliced_y(t, z)]

\* unlinking z
remove_splice(t, z) ==
    IF t.left_[z] = NULL
    THEN transplant(t, z, t.right_[z])
    ELSE IF t.right_[z] = NULL
         THEN transplant(t, z, t.left_[z])
         ELSE splice_successor(t, z, minimum(t, t.right_[z]))

\* ---- rb_delete_fixup, x is a left child; w is x->parent_->right_
\* red sibling: sibling black, parent red, rotate the parent to the left
delete_left_red_sibling(t, x) ==
    IF t.is_red_[t.right_[t.parent_[x]]]
    THEN left_rotate(set_red(set_red(t, t.right_[t.parent_[x]], FALSE),
                             t.parent_[x], TRUE),
                     t.parent_[x])
    ELSE t

\* far nephew black (near nephew red): near nephew black, sibling red, rotate
\* the sibling to the right
delete_left_near_red(t, x, w) ==
    IF t.right_[w] = NULL \/ ~t.is_red_[t.right_[w]]
    THEN right_rotate(set_red(set_red(t, t.left_[w], FALSE), w, TRUE), w)
    ELSE t

\* far nephew red: sibling takes the parent's colour, parent and far nephew
\* black, rotate the parent to the left
delete_left_far_red(t, x, w) ==
    left_rotate(set_red(set_red(set_red(t, w, t.is_red_[t.parent_[x]]),
                                t.parent_[x], FALSE),
                        t.right_[w], FALSE),
                t.parent_[x])

\* x = root_ after the last case
at_root(t) == [t |-> t, x |-> t.root_]

\* the last case with w = x->parent_->right_ as it is by then
delete_left_finish(t, x) == delete_left_far_red(t, x, t.right_[t.parent_[x]])

\* the cases once the sibling w is black (or gone after the rotation)
delete_left_black_sibling(t, x, w) ==
    IF w = NULL
       \/ (   (t.left_[w] = NULL \/ ~t.is_red_[t.left_[w]])
           /\ (t.right_[w] = NULL \/ ~t.is_red_[t.right_[w]]))
    THEN [t |-> IF w # NULL THEN set_red(t, w, TRUE) ELSE t, x |-> t.parent_[x]]
    ELSE CHOOSE r \in {at_root(delete_left_finish(u, x)) :
                         u \in {delete_left_near_red(t, x, w)}} : TRUE

\* the same with w = x->parent_->right_ read after the red-sibling case
delete_left_with_sibling(t, x) ==
    delete_left_black_sibling(t, x, t.right_[t.parent_[x]])

\* one iteration of the loop with x a left child
delete_case_left(t, x) ==
    IF t.right_[t.parent_[x]] = NULL
    THEN [t |-> t, x |-> t.parent_[x]]
    ELSE CHOOSE r \in {delete_left_with_sibling(u, x) :
                         u \in {delete_left_red_sibling(t, x)}} : TRUE

\* ---- rb_delete_fixup, x is a right child; w is x->parent_->left_
delete_right_red_sibling(t, x) ==
    IF t.is_red_[t.left_[t.parent_[x]]]
    THEN right_rotate(set_red(set_red(t, t.left_[t.parent_[x]], FALSE),
                              t.parent_[x], TRUE),
                      t.parent_[x])
    ELSE t

delete_right_near_red(t, x, w) ==
    IF t.left_[w] = NULL \/ ~t.is_red_[t.left_[w]]
    THEN left_rotate(set_red(set_red(t, t.right_[w], FALSE), w, TRUE), w)
    ELSE t

delete_right_far_red(t, x, w) ==
    right_rotate(set_red(set_red(set_red(t, w, t.is_red_[t.parent_[x]]),
                                 t.parent_[x], FALSE),
                         t.left_[w], FALSE),
                 t.parent_[x])

delete_right_finish(t, x) == delete_right_far_red(t, x, t.left_[t.parent_[x]])

delete_right_black_sibling(t, x, w) ==
    IF w = NULL
       \/ (   (t.right_[w] = NULL \/ ~t.is_red_[t.right_[w]])
           /\ (t.left_[w] = NULL \/ ~t.is_red_[t.left_[w]]))
    THEN [t |-> IF w # NULL THEN set_red(t, w, TRUE) ELSE t, x |-> t.parent_[x]]
    ELSE CHOOSE r \in {at_root(delete_right_finish(u, x)) :
                         u \in {delete_right_near_red(t, x, w)}} : TRUE

delete_right_with_sibling(t, x) ==
    delete_right_black_sibling(t, x, t.left_[t.parent_[x]])

\* one iteration of the loop with x a right child
delete_case_right(t, x) ==
    IF t.left_[t.parent_[x]] = NULL
    THEN [t |-> t, x |-> t.parent_[x]]
    ELSE CHOOSE r \in {delete_right_with_sibling(u, x) :
                         u \in {delete_right_red_sibling(t, x)}} : TRUE

\* the while loop of rb_delete_fixup over (tree, x)
RECURSIVE delete_fixup_loop(_)
delete_fixup_loop(r) ==
    IF ~(r.x # NULL /\ r.x # r.t.root_ /\ ~r.t.is_red_[r.x])
    THEN r
    ELSE IF r.x = r.t.left_[r.t.parent_[r.x]]
         THEN delete_fixup_loop(delete_case_left(r.t, r.x))
         ELSE delete_fixup_loop(delete_case_right(r.t, r.x))

\* if (x) x->is_red_ = false;
blacken_x(r) == IF r.x # NULL THEN set_red(r.t, r.x, FALSE) ELSE r.t

rb_delete_fixup(t, x) == blacken_x(delete_fixup_loop([t |-> t, x |-> x]))

\* `delete z` : the cell is gone; what it held is dead
delete_node(t, z) ==
    [t EXCEPT !.heap = @ \ {z},
              !.left_[z] = NULL, !.right_[z] = NULL, !.parent_[z] = NULL,
              !.max_[z] = 0, !.is_red_[z] = TRUE,
              !.interval_[z] = DefaultInterval]

\* the splice and, when the spliced node was black, the fixup at x
remove_relink(t, z) ==
    IF spliced_color(t, z) = FALSE
    THEN rb_delete_fixup(remove_splice(t, z), spliced_x(t, z))
    ELSE remove_splice(t, z)

\* fault variant of remove: the null handle is taken to mean the root
remove_null_is_root(t, z) ==
    IF z = NULL /\ t.root_ = NULL
    THEN t
    ELSE IF z = NULL
         THEN delete_node(remove_relink(remove_update_max(t, t.root_), t.root_),
                          t.root_)
         ELSE delete_node(remove_relink(remove_update_max(t, z), z), z)

remove(t, z) ==
    IF z = NULL
    THEN t
    ELSE delete_node(remove_relink(remove_update_max(t, z), z), z)

\* fault variant of cleanup: `if` in place of `while`
cleanup_once(t) == IF t.root_ # NULL THEN remove(t, t.root_) ELSE t

\* IntervalTree::cleanup: while (root_) remove(root_);
RECURSIVE cleanup(_)
cleanup(t) == IF t.root_ # NULL THEN cleanup(remove(t, t.root_)) ELSE t

\* --------------------------------------------------------------- inorder
\* fault variant of inorder_nodes: the node is visited before its left subtree
RECURSIVE inorder_nodes_preorder(_, _)
inorder_nodes_preorder(t, node) ==
    IF node = NULL
    THEN << >>
    ELSE << node >> \o inorder_nodes_preorder(t, t.left_[node])
         \o inorder_nodes_preorder(t, t.right_[node])

\* IntervalTree::inorder(node, func): the nodes in visiting order
RECURSIVE inorder_nodes(_, _)
inorder_nodes(t, node) ==
    IF node = NULL
    THEN << >>
    ELSE inorder_nodes(t, t.left_[node]) \o << node >>
         \o inorder_nodes(t, t.right_[node])

\* the intervals of a sequence of nodes
intervals_of(t, ns) == [k \in 1..Len(ns) |-> t.interval_[ns[k]]]

\* IntervalTree::inorder(func): the intervals handed to the visitor
inorder(t) == intervals_of(t, inorder_nodes(t, t.root_))

\* ------------------------------------------------------------------ walk
\* walk(query, visitor) as section 4.5 of the specification describes it: the
\* left subtree is entered only if it exists and the query's low endpoint is
\* less than the left child's max_, the node is tested for overlap, the right
\* subtree is entered under the same condition on the right child's max_.
\* The result is the nodes handed to the visitor, in visiting order.
RECURSIVE walk_nodes(_, _, _)
walk_nodes(t, node, q) ==
    IF node = NULL
    THEN << >>
    ELSE (IF t.left_[node] # NULL /\ q.low_ < t.max_[t.left_[node]]
          THEN walk_nodes(t, t.left_[node], q)
          ELSE << >>)
         \o (IF overlap(t.interval_[node], q) THEN << node >> ELSE << >>)
         \o (IF t.right_[node] # NULL /\ q.low_ < t.max_[t.right_[node]]
             THEN walk_nodes(t, t.right_[node], q)
             ELSE << >>)

\* the intervals the visitor of walk is handed
walk(t, q) == intervals_of(t, walk_nodes(t, t.root_, q))

\* ------------------------------------------- algo::BinarySearchTree<int, int>
\* (include/algo/binary_search_tree.hpp).  A tree value b is the record of
\* root_ and of the fields of BinarySearchTreeNode; the field assignments
\* set_root, set_left, set_right and set_parent above apply to it as well.

\* the keys the callers of the BinarySearchTree use, and the values: the
\* tree only stores and hands back a value, so every add passes one that no
\* earlier add passed (the number of the add)
BstKeys == 0..MaxBstKey

BstValues == Nodes

\* BinarySearchTree() : root_(nullptr)
EmptyBst ==
    [ root_     |-> NULL,
      left_     |-> [n \in Nodes |-> NULL],
      right_    |-> [n \in Nodes |-> NULL],
      parent_   |-> [n \in Nodes |-> NULL],
      key_      |-> [n \in Nodes |-> 0],
      value_    |-> [n \in Nodes |-> 0],
      heap      |-> {},
      allocated |-> 0 ]

\* BinarySearchTreeNode::setLeft / setRight
bst_setLeft(b, n, node) == set_parent_if(set_left(b, n, node), node, n)

bst_setRight(b, n, node) == set_parent_if(set_right(b, n, node), node, n)

\* BinarySearchTreeNode::takeLeft / takeRight: the tree afterwards; the value
\* returned is the child read before the call
bst_takeLeft(b, n) == set_parent_if(set_left(b, n, NULL), b.left_[n], NULL)

bst_takeRight(b, n) == set_parent_if(set_right(b, n, NULL), b.right_[n], NULL)

\* BinarySearchTree::mutable_search (search has the same body)
RECURSIVE bst_search(_, _, _)
bst_search(b, x, k) ==
    IF ~(x # NULL /\ ~(k = b.key_[x]))
    THEN x
    ELSE IF k < b.key_[x]
         THEN bst_search(b, b.left_[x], k)
         ELSE bst_search(b, b.right_[x], k)

\* std::make_unique<Node>(T{key}, std::move(value))
bst_new_node(b, k, v) ==
    [b EXCEPT !.heap = @ \cup {b.allocated + 1},
              !.allocated = @ + 1,
              !.key_[b.allocated + 1] = k,
              !.value_[b.allocated + 1] = v]

\* the descent loop of internal_add: the node y the new node goes under
RECURSIVE bst_add_descend(_, _, _, _)
bst_add_descend(b, x, y, k) ==
    IF x = NULL
    THEN y
    ELSE IF k < b.key_[x]
         THEN bst_add_descend(b, b.left_[x], x, k)
         ELSE bst_add_descend(b, b.right_[x], x, k)

\* fault variant of bst_add_link: the side test is inverted
bst_add_link_inverted(b, node, y) ==
    IF y = NULL
    THEN set_parent(set_root(b, node), node, NULL)
    ELSE IF b.key_[node] > b.key_[y]
         THEN bst_setLeft(b, y, node)
         ELSE bst_setRight(b, y, node)

\* the link of internal_add
bst_add_link(b, node, y) ==
    IF y = NULL
    THEN set_parent(set_root(b, node), node, NULL)
    ELSE IF b.key_[node] < b.key_[y]
         THEN bst_setLeft(b, y, node)
         ELSE bst_setRight(b, y, node)

\* BinarySearchTree::internal_add
bst_internal_add(b, node) ==
    bst_add_link(b, node, bst_add_descend(b, b.root_, NULL, b.key_[node]))

\* BinarySearchTree::add
bst_add(b, k, v) == bst_internal_add(bst_new_node(b, k, v), b.allocated + 1)

\* BinarySearchTree::minimum
RECURSIVE bst_minimum(_, _)
bst_minimum(b, node) ==
    IF node # NULL /\ b.left_[node] # NULL
    THEN bst_minimum(b, b.left_[node])
    ELSE node

\* BinarySearchTree::transplant
bst_transplant(b, u, v) ==
    IF b.parent_[u] = NULL
    THEN set_parent_if(set_root(b, v), v, NULL)
    ELSE IF u = b.left_[b.parent_[u]]
         THEN bst_setLeft(b, b.parent_[u], v)
         ELSE bst_setRight(b, b.parent_[u], v)

\* transplant(y, y->takeRight()); y->setRight(z->takeRight());
bst_lift_successor(b, z, y) ==
    IF y # b.right_[z]
    THEN bst_setRight(
             bst_takeRight(bst_transplant(bst_takeRight(b, y), y, b.right_[y]), z),
             y, b.right_[z])
    ELSE b

\* fault variant of bst_adopt_left: z's left subtree is not handed to y
bst_adopt_left_dropped(b, z, y) == bst_takeLeft(b, z)

\* y->setLeft(z->takeLeft());
bst_adopt_left(b, z, y) == bst_setLeft(bst_takeLeft(b, z), y, b.left_[z])

\* the two-children branch of internal_remove with y = minimum(z->right())
bst_replace_by_successor(b, z, y) ==
    bst_adopt_left(bst_transplant(bst_lift_successor(b, z, y), z, y), z, y)

\* the three branches of internal_remove
bst_unlink(b, z) ==
    IF b.left_[z] = NULL
    THEN bst_transplant(bst_takeRight(b, z), z, b.right_[z])
    ELSE IF b.right_[z] = NULL
         THEN bst_transplant(bst_takeLeft(b, z), z, b.left_[z])
         ELSE bst_replace_by_successor(b, z, bst_minimum(b, b.right_[z]))

\* the unique_ptr returned by internal_remove is dropped: the node is freed
bst_free(b, z) ==
    [b EXCEPT !.heap = @ \ {z},
              !.left_[z] = NULL, !.right_[z] = NULL, !.parent_[z] = NULL,
              !.key_[z] = 0, !.value_[z] = 0]

\* BinarySearchTree::internal_remove
bst_internal_remove(b, z) == IF z = NULL THEN b ELSE bst_free(bst_unlink(b, z), z)

\* BinarySearchTree::remove
bst_remove(b, k) == bst_internal_remove(b, bst_search(b, b.root_, k))

\* BinarySearchTree::inorder(node, func): the nodes in visiting order
RECURSIVE bst_inorder_nodes(_, _)
bst_inorder_nodes(b, node) ==
    IF node = NULL
    THEN << >>
    ELSE bst_inorder_nodes(b, b.left_[node]) \o << node >>
         \o bst_inorder_nodes(b, b.right_[node])

\* BinarySearchTree::inorder(func): the (key, value) pairs handed to the visitor
bst_pairs_of(b, ns) == [k \in 1..Len(ns) |-> << b.key_[ns[k]], b.value_[ns[k]] >>]

bst_inorder(b) == bst_pairs_of(b, bst_inorder_nodes(b, b.root_))

\* BinarySearchTree::isBST(node)
RECURSIVE bst_isBST(_, _)
bst_isBST(b, node) ==
    IF node = NULL
    THEN TRUE
    ELSE /\ b.left_[node] # NULL =>
              /\ ~(b.key_[b.left_[node]] > b.key_[node])
              /\ bst_isBST(b, b.left_[node])
         /\ b.right_[node] # NULL =>
              /\ ~(b.key_[b.right_[node]] < b.key_[node])
              /\ bst_isBST(b, b.right_[node])

\* ------------------------------------- the loops, one iteration at a time
\* insert, `while (node)`: the next node of the descent
descend_next(t, node, iv) ==
    IF iv.low_ < key(t, node) THEN t.left_[node] ELSE t.right_[node]

\* insert, `while (node)`: node->max_ = std::max(node->max_, high_)
descend_raise(t, node, iv) == set_max(t, node, Max2(t.max_[node], iv.high_))

\* rb_insert_fixup: the loop condition
insert_fixup_cond(t, node) ==
    t.parent_[node] # NULL /\ t.is_red_[t.parent_[node]]

\* rb_insert_fixup: what one iteration does to the tree
insert_fixup_body(t, node) ==
    IF t.parent_[node] = t.left_[t.parent_[t.parent_[node]]]
    THEN IF    t.right_[t.parent_[t.parent_[node]]] # NULL
            /\ t.is_red_[t.right_[t.parent_[t.parent_[node]]]]
         THEN recolor_uncle(t, node, t.right_[t.parent_[t.parent_[node]]])
         ELSE insert_case_left(t, node)
    ELSE IF    t.left_[t.parent_[t.parent_[node]]] # NULL
            /\ t.is_red_[t.left_[t.parent_[t.parent_[node]]]]
         THEN recolor_uncle(t, node, t.left_[t.parent_[t.parent_[node]]])
         ELSE insert_case_right(t, node)

\* rb_insert_fixup: the node the next iteration looks at
insert_fixup_next(t, node) ==
    IF t.parent_[node] = t.left_[t.parent_[t.parent_[node]]]
    THEN IF    t.right_[t.parent_[t.parent_[node]]] # NULL
            /\ t.is_red_[t.right_[t.parent_[t.parent_[node]]]]
         THEN t.parent_[t.parent_[node]]
         ELSE node_after_case_left(t, node)
    ELSE IF    t.left_[t.parent_[t.parent_[node]]] # NULL
            /\ t.is_red_[t.left_[t.parent_[t.parent_[node]]]]
         THEN t.parent_[t.parent_[node]]
         ELSE node_after_case_right(t, node)

\* search: the loop condition
search_cond(t, node, iv) == node # NULL /\ ~overlap(t.interval_[node], iv)

\* fault variant of search_next: the cursor does not move
search_next_stays(t, node, iv) == node

\* search: the body of the loop
search_next(t, node, iv) ==
    IF t.left_[node] # NULL /\ t.max_[t.left_[node]] >= iv.low_
    THEN t.left_[node]
    ELSE t.right_[node]

\* rb_delete_fixup: the loop condition
delete_fixup_cond(t, x) == x # NULL /\ x # t.root_ /\ ~t.is_red_[x]

\* rb_delete_fixup: one iteration, giving the tree and the next x
delete_fixup_body(t, x) ==
    IF x = t.left_[t.parent_[x]]
    THEN delete_case_left(t, x)
    ELSE delete_case_right(t, x)

\* ----------------------------------------------------------------- state
VARIABLES
    tree,      \* the IntervalTree object and the nodes it owns
    call,      \* the last public call: operation, arguments, result, locals
    bag,       \* abstract content: how many times each interval is stored
    handles,   \* node handles a caller may hold, with the interval inserted
    cap,       \* how many allocations this run makes at most
    top,       \* the largest endpoint this run's callers use
    pc,        \* Solution::merge: position in the driver
    input,     \* Solution::merge: the input intervals consumed so far
    low,       \* Solution::merge: local low
    high,      \* Solution::merge: local high
    rem,       \* Solution::merge: local rem
    res,       \* Solution::merge: the returned vector
    bst,       \* the BinarySearchTree<int, int> object and the nodes it owns
    bstbag,    \* abstract content of bst: how many nodes each key should have
    frame      \* the call in progress: the loop it stands at and its locals

vars == << tree, call, bag, handles, cap, top, pc, input, low, high, rem, res,
           bst, bstbag, frame >>

mergeVars == << pc, input, low, high, rem, res >>

bstVars == << bst, bstbag >>

NoCall ==
    [op |-> "none", interval |-> DefaultInterval, z |-> NULL, ret |-> NULL,
     has_two_children |-> FALSE, y_original_color |-> FALSE, x |-> NULL,
     deleted |-> 0, other |-> DefaultInterval, holds |-> FALSE, out |-> << >>,
     key |-> 0, value |-> 0]

\* no call in progress
IdleFrame ==
    [at |-> "idle", op |-> "none", caller |-> "user", node |-> NULL,
     parent |-> NULL, z |-> NULL, iv |-> DefaultInterval, successor |-> NULL,
     two |-> FALSE, then |-> "none", ran |-> {}, fixup |-> FALSE]

InitObjects(c, v) ==
    /\ cap = c
    /\ top = v
    /\ tree = EmptyTree
    /\ call = NoCall
    /\ bag = [iv \in Interval |-> 0]
    /\ handles = {}
    /\ pc = "next"
    /\ input = << >>
    /\ low = 0
    /\ high = 0
    /\ rem = NULL
    /\ res = << >>
    /\ bst = EmptyBst
    /\ bstbag = [k \in BstKeys |-> 0]

InitWith(c, v) == InitObjects(c, v) /\ frame = IdleFrame

Init == InitWith(MaxNodes, MaxVal)

InitDeep == InitWith(MaxDeepNodes, MaxDeepVal)

InitMerge == InitWith(MaxNodes, MaxDeepVal)

InitOverlap == InitWith(MaxNodes, MaxOverlapVal)

InitBST == InitWith(MaxBstNodes, MaxBstKey)

\* effect of insert(interval) on the object and on the bookkeeping
DoInsert(iv) ==
    /\ tree.allocated < cap
    /\ tree' = insert(tree, iv)
    /\ call' = [NoCall EXCEPT !.op = "insert", !.interval = iv]
    /\ bag' = [bag EXCEPT ![iv] = @ + 1]
    /\ handles' = handles \cup {<< NewNode(tree), iv >>}
    /\ UNCHANGED << cap, top >>

\* what remove(z) leaves in `call`
RemoveCall(t, z) ==
    IF z = NULL
    THEN [NoCall EXCEPT !.op = "remove"]
    ELSE [NoCall EXCEPT !.op = "remove", !.z = z, !.deleted = 1,
            !.interval = t.interval_[z],
            !.has_two_children = (t.left_[z] # NULL /\ t.right_[z] # NULL),
            !.y_original_color = spliced_color(t, z),
            !.x = spliced_x(t, z)]

\* effect of remove(z) on the object and on the bookkeeping
DoRemove(z) ==
    /\ tree' = remove(tree, z)
    /\ call' = RemoveCall(tree, z)
    /\ bag' = IF z = NULL THEN bag
              ELSE [bag EXCEPT ![tree.interval_[z]] = @ - 1]
    /\ handles' = {h \in handles : h[1] # z}
    /\ UNCHANGED << cap, top >>

\* ------------------------------------------------- the public operations
Insert ==
    /\ \E iv \in IntervalsUpTo(top) : DoInsert(iv)
    /\ UNCHANGED mergeVars
    /\ UNCHANGED bstVars
    /\ UNCHANGED frame

Remove ==
    /\ \E z \in tree.heap \cup {NULL} : DoRemove(z)
    /\ UNCHANGED mergeVars
    /\ UNCHANGED bstVars
    /\ UNCHANGED frame

Search ==
    /\ \E iv \in IntervalsUpTo(top) :
         call' = [NoCall EXCEPT !.op = "search", !.interval = iv,
                                !.ret = search(tree, iv)]
    /\ UNCHANGED << tree, bag, handles, cap, top >>
    /\ UNCHANGED mergeVars
    /\ UNCHANGED bstVars
    /\ UNCHANGED frame

\* cleanup(): every node is removed, no handle stays valid
Cleanup ==
    /\ \E r \in {cleanup(tree)} :
         /\ tree' = r
         /\ call' = [NoCall EXCEPT !.op = "cleanup",
                                   !.deleted = Cardinality(tree.heap \ r.heap)]
    /\ bag' = [iv \in Interval |-> 0]
    /\ handles' = {}
    /\ UNCHANGED << cap, top >>
    /\ UNCHANGED mergeVars
    /\ UNCHANGED bstVars
    /\ UNCHANGED frame

\* inorder(func) with a visitor that collects what it is handed; the method
\* is const and assigns to no node
Inorder ==
    /\ call' = [NoCall EXCEPT !.op = "inorder", !.out = inorder(tree)]
    /\ UNCHANGED << tree, bag, handles, cap, top >>
    /\ UNCHANGED mergeVars
    /\ UNCHANGED bstVars
    /\ UNCHANGED frame

Next == Insert \/ Remove \/ Search

Spec == Init /\ [][Next]_vars

NextTree == Insert \/ Remove

\* the two operations that change the tree
SpecTree == Init /\ [][NextTree]_vars

NextCleanup == Insert \/ Remove \/ Cleanup

\* insert, remove and cleanup on one tree
SpecCleanup == Init /\ [][NextCleanup]_vars

NextInorder == Insert \/ Remove \/ Inorder

\* insert, remove and inorder on one tree
SpecInorder == Init /\ [][NextInorder]_vars

\* the same operations with one more allocation and a wider range of endpoints
SpecDeep == InitDeep /\ [][Next]_vars

\* walk(query, visitor) with a visitor that collects what it is handed
Walk ==
    /\ \E q \in IntervalsUpTo(top) :
         call' = [NoCall EXCEPT !.op = "walk", !.interval = q,
                                !.out = walk(tree, q)]
    /\ UNCHANGED << tree, bag, handles, cap, top >>
    /\ UNCHANGED mergeVars
    /\ UNCHANGED bstVars
    /\ UNCHANGED frame

NextWalk == Insert \/ Remove \/ Walk

\* insert, remove and walk on one tree
SpecWalk == Init /\ [][NextWalk]_vars

\* ------------------------------------------------------ Interval::overlap
\* a.overlap(b) for two well-formed intervals
Overlap ==
    /\ \E a, b \in IntervalsUpTo(top) :
         call' = [NoCall EXCEPT !.op = "overlap", !.interval = a, !.other = b,
                                !.holds = overlap(a, b)]
    /\ UNCHANGED << tree, bag, handles, cap, top >>
    /\ UNCHANGED mergeVars
    /\ UNCHANGED bstVars
    /\ UNCHANGED frame

SpecOverlap == InitOverlap /\ [][Overlap]_vars

\* ------------------------------------------------------ BinarySearchTree
\* add(key, value)
BstAdd ==
    /\ bst.allocated < cap
    /\ \E k \in 0..top, v \in {bst.allocated + 1} :
         /\ bst' = bst_add(bst, k, v)
         /\ call' = [NoCall EXCEPT !.op = "bst_add", !.key = k, !.value = v]
         /\ bstbag' = [bstbag EXCEPT ![k] = @ + 1]
    /\ UNCHANGED << tree, bag, handles, cap, top >>
    /\ UNCHANGED mergeVars
    /\ UNCHANGED frame

\* what remove(key) leaves in `call` when mutable_search returned z
BstRemoveCall(b, k, z) ==
    IF z = NULL
    THEN [NoCall EXCEPT !.op = "bst_remove", !.key = k]
    ELSE [NoCall EXCEPT !.op = "bst_remove", !.key = k, !.z = z,
            !.value = b.value_[z], !.deleted = 1,
            !.has_two_children = (b.left_[z] # NULL /\ b.right_[z] # NULL)]

\* remove(key); the key may be absent
BstRemove ==
    /\ \E k \in 0..top :
         /\ bst' = bst_remove(bst, k)
         /\ call' = BstRemoveCall(bst, k, bst_search(bst, bst.root_, k))
         /\ bstbag' = [bstbag EXCEPT ![k] = IF @ > 0 THEN @ - 1 ELSE @]
    /\ UNCHANGED << tree, bag, handles, cap, top >>
    /\ UNCHANGED mergeVars
    /\ UNCHANGED frame

NextBST == BstAdd \/ BstRemove

SpecBST == InitBST /\ [][NextBST]_vars

\* ------------------------------------------------- test::Solution::merge
\* `for (const auto& interval : intervals)` takes the next input interval
MergePick ==
    /\ pc = "next"
    /\ tree.allocated < cap
    /\ \E iv \in IntervalsUpTo(top) :
         /\ input' = Append(input, iv)
         /\ low' = iv.low_
         /\ high' = iv.high_
    /\ pc' = "search"
    /\ UNCHANGED << tree, call, bag, handles, cap, top, rem, res >>
    /\ UNCHANGED bstVars
    /\ UNCHANGED frame

\* fault variant of MergeFound: the found interval is removed but low and
\* high are left as they were
MergeFound_not_widened(r) ==
    /\ rem' = r
    /\ call' = [NoCall EXCEPT !.op = "search", !.ret = r,
                              !.interval = [low_ |-> low, high_ |-> high]]
    /\ UNCHANGED << low, high >>
    /\ pc' = IF r = NULL THEN "insert" ELSE "remove"

\* what the driver does with the result r of search({low, high}): break when
\* nothing overlaps, else absorb the found interval
MergeFound(r) ==
    /\ rem' = r
    /\ call' = [NoCall EXCEPT !.op = "search", !.ret = r,
                              !.interval = [low_ |-> low, high_ |-> high]]
    /\ IF r = NULL
       THEN pc' = "insert" /\ UNCHANGED << low, high >>
       ELSE /\ low' = Min2(low, tree.interval_[r].low_)
            /\ high' = Max2(high, tree.interval_[r].high_)
            /\ pc' = "remove"

\* rem = intervalTree.search({low, high})
MergeSearch ==
    /\ pc = "search"
    /\ MergeFound(search(tree, [low_ |-> low, high_ |-> high]))
    /\ UNCHANGED << tree, bag, handles, cap, top, input, res >>
    /\ UNCHANGED bstVars
    /\ UNCHANGED frame

\* intervalTree.remove(rem)
MergeRemove ==
    /\ pc = "remove"
    /\ DoRemove(rem)
    /\ pc' = "search"
    /\ UNCHANGED << input, low, high, rem, res >>
    /\ UNCHANGED bstVars
    /\ UNCHANGED frame

\* intervalTree.insert({low, high})
MergeInsert ==
    /\ pc = "insert"
    /\ DoInsert([low_ |-> low, high_ |-> high])
    /\ pc' = "next"
    /\ UNCHANGED << input, low, high, rem, res >>
    /\ UNCHANGED bstVars
    /\ UNCHANGED frame

\* the input is exhausted: res is filled by the final inorder
MergeReturn ==
    /\ pc = "next"
    /\ res' = inorder(tree)
    /\ pc' = "done"
    /\ UNCHANGED << tree, call, bag, handles, cap, top, input, low, high, rem >>
    /\ UNCHANGED bstVars
    /\ UNCHANGED frame

NextMerge == MergePick \/ MergeSearch \/ MergeRemove \/ MergeInsert \/ MergeReturn

SpecMerge == InitMerge /\ [][NextMerge]_vars

\* ------------------------------------------- the calls, loop by loop
\* everything a step of a call in progress leaves alone
stepFrame == << call, bag, handles, cap, top, pc, input, low, high, rem, res,
                bst, bstbag >>

\* the frame after a call's return: a remove called by cleanup goes back to
\* cleanup's loop
Return(f) ==
    IF f.caller = "cleanup"
    THEN [IdleFrame EXCEPT !.at = "cleanup", !.op = "cleanup", !.ran = f.ran]
    ELSE [IdleFrame EXCEPT !.op = f.op, !.ran = f.ran, !.fixup = f.fixup]

\* the frame with one more iteration of the loop it stands at
Iterated(f) == [f EXCEPT !.ran = @ \cup {f.at}]

\* insert(interval) up to the head of the descent
BeginInsert ==
    /\ frame.at = "idle"
    /\ tree.allocated < cap
    /\ \E iv \in IntervalsUpTo(top) :
         /\ tree' = new_node(tree, iv)
         /\ frame' = [IdleFrame EXCEPT !.at = "insert_descend", !.op = "insert",
                                       !.node = tree.root_, !.z = NewNode(tree),
                                       !.iv = iv]
    /\ UNCHANGED stepFrame

\* one iteration of `while (node)`
DescendStep ==
    /\ frame.at = "insert_descend"
    /\ frame.node # NULL
    /\ tree' = descend_raise(tree, frame.node, frame.iv)
    /\ frame' = [Iterated(frame) EXCEPT
                   !.parent = frame.node,
                   !.node = descend_next(tree, frame.node, frame.iv)]
    /\ UNCHANGED stepFrame

\* the descent is over: the new node is linked and the fixup entered
DescendExit ==
    /\ frame.at = "insert_descend"
    /\ frame.node = NULL
    /\ tree' = insert_link(tree, frame.z, frame.parent)
    /\ frame' = [frame EXCEPT !.at = "insert_fixup", !.node = frame.z]
    /\ UNCHANGED stepFrame

\* one iteration of the loop of rb_insert_fixup
InsertFixupStep ==
    /\ frame.at = "insert_fixup"
    /\ insert_fixup_cond(tree, frame.node)
    /\ tree' = insert_fixup_body(tree, frame.node)
    /\ frame' = [Iterated(frame) EXCEPT
                   !.node = insert_fixup_next(tree, frame.node)]
    /\ UNCHANGED stepFrame

\* the loop of rb_insert_fixup is over: root_ is blackened, insert returns
InsertFixupExit ==
    /\ frame.at = "insert_fixup"
    /\ ~insert_fixup_cond(tree, frame.node)
    /\ tree' = blacken_root(tree)
    /\ frame' = Return(frame)
    /\ UNCHANGED stepFrame

\* search(interval) up to the head of its loop
BeginSearch ==
    /\ frame.at = "idle"
    /\ \E iv \in IntervalsUpTo(top) :
         frame' = [IdleFrame EXCEPT !.at = "search", !.op = "search",
                                    !.node = tree.root_, !.iv = iv]
    /\ UNCHANGED tree
    /\ UNCHANGED stepFrame

SearchStep ==
    /\ frame.at = "search"
    /\ search_cond(tree, frame.node, frame.iv)
    /\ frame' = [Iterated(frame) EXCEPT
                   !.node = search_next(tree, frame.node, frame.iv)]
    /\ UNCHANGED tree
    /\ UNCHANGED stepFrame

SearchExit ==
    /\ frame.at = "search"
    /\ ~search_cond(tree, frame.node, frame.iv)
    /\ frame' = [Return(frame) EXCEPT !.node = frame.node]
    /\ UNCHANGED tree
    /\ UNCHANGED stepFrame

\* remove(z), z not null, up to the first loop: z->max_ is set, then either
\* minimum(z->right_) or the walk from z->parent_ is entered
EnterRemove(z, caller, ran) ==
    /\ tree' = remove_z_max(tree, z)
    /\ frame' = IF tree.left_[z] # NULL /\ tree.right_[z] # NULL
                THEN [IdleFrame EXCEPT !.at = "minimum", !.op = "remove",
                                       !.caller = caller, !.z = z, !.two = TRUE,
                                       !.then = "walk", !.ran = ran,
                                       !.node = tree.right_[z]]
                ELSE [IdleFrame EXCEPT !.at = "walk", !.op = "remove",
                                       !.caller = caller, !.z = z, !.ran = ran,
                                       !.node = tree.parent_[z]]

\* remove(z) with a live handle; remove(nullptr) returns at once and changes
\* nothing
BeginRemove ==
    /\ frame.at = "idle"
    /\ \E z \in tree.heap : EnterRemove(z, "user", {})
    /\ UNCHANGED stepFrame

\* one iteration of the loop of minimum
MinimumStep ==
    /\ frame.at = "minimum"
    /\ tree.left_[frame.node] # NULL
    /\ frame' = [Iterated(frame) EXCEPT !.node = tree.left_[frame.node]]
    /\ UNCHANGED tree
    /\ UNCHANGED stepFrame

\* fault variant of AfterSplice: the fixup is entered whatever the colour
AfterSplice_ungated(t, x, y_original_color) ==
    /\ tree' = t
    /\ frame' = [frame EXCEPT !.at = "delete_fixup", !.node = x,
                              !.fixup = TRUE]

\* what follows the unlinking of z: the fixup at x when the spliced node was
\* black, else `delete z` and the return
AfterSplice(t, x, y_original_color) ==
    IF y_original_color = FALSE
    THEN /\ tree' = t
         /\ frame' = [frame EXCEPT !.at = "delete_fixup", !.node = x,
                                   !.fixup = TRUE]
    ELSE /\ tree' = delete_node(t, frame.z)
         /\ frame' = Return(frame)

\* minimum returns: to `i = successor->parent_` the first time, to the
\* splice of y the second time
MinimumExit ==
    /\ frame.at = "minimum"
    /\ tree.left_[frame.node] = NULL
    /\ IF frame.then = "walk"
       THEN /\ frame' = [frame EXCEPT !.at = "walk",
                                      !.successor = frame.node,
                                      !.node = tree.parent_[frame.node]]
            /\ UNCHANGED tree
       ELSE AfterSplice(splice_successor(tree, frame.z, frame.node),
                        tree.right_[frame.node], tree.is_red_[frame.node])
    /\ UNCHANGED stepFrame

\* one iteration of `while (i)`
WalkStep ==
    /\ frame.at = "walk"
    /\ frame.node # NULL
    /\ tree' = refresh_max(tree, frame.node)
    /\ frame' = [Iterated(frame) EXCEPT !.node = tree.parent_[frame.node]]
    /\ UNCHANGED stepFrame

\* the walk is over: with two children the successor takes z's max_ and
\* minimum(z->right_) is called again, else z is unlinked by one transplant
WalkExit ==
    /\ frame.at = "walk"
    /\ frame.node = NULL
    /\ IF frame.two
       THEN /\ tree' = copy_max(tree, frame.successor, frame.z)
            /\ frame' = [frame EXCEPT !.at = "minimum", !.then = "splice",
                                      !.node = tree.right_[frame.z]]
       ELSE AfterSplice(remove_splice(tree, frame.z), spliced_x(tree, frame.z),
                        tree.is_red_[frame.z])
    /\ UNCHANGED stepFrame

\* one iteration of the loop of rb_delete_fixup
DeleteFixupStep ==
    /\ frame.at = "delete_fixup"
    /\ delete_fixup_cond(tree, frame.node)
    /\ \E r \in {delete_fixup_body(tree, frame.node)} :
         /\ tree' = r.t
         /\ frame' = [Iterated(frame) EXCEPT !.node = r.x]
    /\ UNCHANGED stepFrame

\* the loop of rb_delete_fixup is over: x is blackened, z deleted
DeleteFixupExit ==
    /\ frame.at = "delete_fixup"
    /\ ~delete_fixup_cond(tree, frame.node)
    /\ tree' = delete_node(blacken_x([t |-> tree, x |-> frame.node]), frame.z)
    /\ frame' = Return(frame)
    /\ UNCHANGED stepFrame

\* cleanup() up to the head of its loop
BeginCleanup ==
    /\ frame.at = "idle"
    /\ frame' = [IdleFrame EXCEPT !.at = "cleanup", !.op = "cleanup"]
    /\ UNCHANGED tree
    /\ UNCHANGED stepFrame

\* one iteration of `while (root_)`: remove(root_) is entered
CleanupStep ==
    /\ frame.at = "cleanup"
    /\ tree.root_ # NULL
    /\ EnterRemove(tree.root_, "cleanup", frame.ran \cup {"cleanup"})
    /\ UNCHANGED stepFrame

CleanupExit ==
    /\ frame.at = "cleanup"
    /\ tree.root_ = NULL
    /\ frame' = [IdleFrame EXCEPT !.op = "cleanup", !.ran = frame.ran]
    /\ UNCHANGED tree
    /\ UNCHANGED stepFrame

\* a caller starts a call
Begin == BeginInsert \/ BeginRemove \/ BeginSearch \/ BeginCleanup

\* the call in progress goes on by one loop iteration or one loop exit
Running ==
    \/ DescendStep \/ DescendExit \/ InsertFixupStep \/ InsertFixupExit
    \/ SearchStep \/ SearchExit
    \/ MinimumStep \/ MinimumExit \/ WalkStep \/ WalkExit
    \/ DeleteFixupStep \/ DeleteFixupExit
    \/ CleanupStep \/ CleanupExit

\* the merge driver with its calls of search, remove and insert taken whole
DriverPick == frame.at = "merge" /\ MergePick

DriverSearch == frame.at = "merge" /\ MergeSearch

DriverRemove == frame.at = "merge" /\ MergeRemove

DriverInsert == frame.at = "merge" /\ MergeInsert

DriverReturn == frame.at = "merge" /\ MergeReturn

Driver ==
    DriverPick \/ DriverSearch \/ DriverRemove \/ DriverInsert \/ DriverReturn

NextSteps == Begin \/ Running \/ Driver

\* a run is either a caller's calls on many nodes holding [0, 0], or a
\* caller's calls on fewer nodes with endpoints 0..MaxStepVal, or the merge
\* driver on such endpoints
InitSteps ==
    \/ InitObjects(MaxLoopNodes, 0) /\ frame = IdleFrame
    \/ InitObjects(MaxStepNodes, MaxStepVal) /\ frame = IdleFrame
    \/ InitObjects(MaxStepNodes, MaxStepVal)
          /\ frame = [IdleFrame EXCEPT !.at = "merge"]

SpecSteps == InitSteps /\ [][NextSteps]_vars

\* a call in progress is not suspended forever, and the driver goes on after
\* a search and after finding an interval to remove
FairSpecSteps ==
    /\ SpecSteps
    /\ WF_vars(DescendStep) /\ WF_vars(DescendExit)
    /\ WF_vars(InsertFixupStep) /\ WF_vars(InsertFixupExit)
    /\ WF_vars(SearchStep) /\ WF_vars(SearchExit)
    /\ WF_vars(MinimumStep) /\ WF_vars(MinimumExit)
    /\ WF_vars(WalkStep) /\ WF_vars(WalkExit)
    /\ WF_vars(DeleteFixupStep) /\ WF_vars(DeleteFixupExit)
    /\ WF_vars(CleanupStep) /\ WF_vars(CleanupExit)
    /\ WF_vars(DriverSearch) /\ WF_vars(DriverRemove)

\* ------------------------------------------------ vocabulary of the claims
Range(seq) == {seq[k] : k \in 1..Len(seq)}

\* the nodes of the subtree rooted at n, and of the whole tree
SubtreeNodes(t, n) == Range(inorder_nodes(t, n))

InTree(t) == SubtreeNodes(t, t.root_)

SetMax(S) == CHOOSE m \in S : \A k \in S : k <= m

\* the largest high endpoint stored in the subtree rooted at n
SubtreeMaxHigh(t, n) == SetMax({t.interval_[m].high_ : m \in SubtreeNodes(t, n)})

\* max(n.interval.high, left.max if present, right.max if present)
LocalMax(t, n) ==
    SetMax({t.interval_[n].high_}
           \cup {t.max_[c] : c \in {t.left_[n], t.right_[n]} \ {NULL}})

\* closed-interval overlap as section 3 of the specification words it
Overlaps(a, b) == a.low_ <= b.high_ /\ b.low_ <= a.high_

\* the numbers of black nodes met on the paths from n down to an absent leaf
RECURSIVE BlackCounts(_, _)
BlackCounts(t, n) ==
    IF n = NULL
    THEN {0}
    ELSE {c + (IF t.is_red_[n] THEN 0 ELSE 1) :
            c \in BlackCounts(t, t.left_[n]) \cup BlackCounts(t, t.right_[n])}

\* how many positions of a sequence hold the value v
Count(seq, v) == Cardinality({k \in 1..Len(seq) : seq[k] = v})

\* ------------------------------------------------------------ C1
\* C1: after any sequence of insert and remove every node's max_ equals
\* max(own high, children's max_), i.e. the largest high endpoint stored in
\* its subtree, also after removing a two-children node whose own high
\* endpoint was the largest of its subtree.
AugmentationExact ==
    \A n \in InTree(tree) :
        /\ tree.max_[n] = LocalMax(tree, n)
        /\ tree.max_[n] = SubtreeMaxHigh(tree, n)

\* ------------------------------------------------------------ C2
\* C2: in every reachable tree all paths from the root to an absent leaf hold
\* the same number of black nodes, also after removing a childless black node.
BlackHeightUniform == Cardinality(BlackCounts(tree, tree.root_)) = 1

\* ------------------------------------------------------------ C3
\* C3: if some stored interval overlaps the query, search returns a node;
\* search answers "not found" only when nothing stored overlaps the query.
SearchComplete ==
    (call.op = "search" /\ call.ret = NULL)
        => ~ \E n \in InTree(tree) : Overlaps(tree.interval_[n], call.interval)

\* ------------------------------------------------------------ C4
\* C4: a node returned by search is in the tree and its interval overlaps the
\* query: node.low <= q.high and q.low <= node.high.
SearchSound ==
    (call.op = "search" /\ call.ret # NULL)
        => /\ call.ret \in InTree(tree)
           /\ tree.interval_[call.ret].low_ <= call.interval.high_
           /\ call.interval.low_ <= tree.interval_[call.ret].high_

\* search went below the root and came back with an overlapping node
SearchSoundWitness ==
    /\ call.op = "search"
    /\ call.ret # NULL
    /\ call.ret # tree.root_
    /\ ~ Overlaps(tree.interval_[tree.root_], call.interval)

\* ------------------------------------------------------------ C5
\* C5: in every reachable tree (equal low endpoints allowed) each node's left
\* subtree holds keys <= its key and its right subtree keys >= its key, and
\* the in-order traversal yields low endpoints in non-decreasing order.
BSTOrdering ==
    /\ \A n \in InTree(tree) :
         /\ \A m \in SubtreeNodes(tree, tree.left_[n]) : key(tree, m) <= key(tree, n)
         /\ \A m \in SubtreeNodes(tree, tree.right_[n]) : key(tree, m) >= key(tree, n)
    /\ LET io == inorder(tree)
       IN  \A k \in 1..(Len(io) - 1) : io[k].low_ <= io[k + 1].low_

\* a two-children node was removed from a tree that keeps three nodes, two of
\* them with the same low endpoint and one with another
BSTOrderingWitness ==
    /\ call.op = "remove"
    /\ call.has_two_children
    /\ Cardinality(InTree(tree)) = 3
    /\ \E n, m \in InTree(tree) : n # m /\ key(tree, n) = key(tree, m)
    /\ \E n, m \in InTree(tree) : key(tree, n) < key(tree, m)

\* ------------------------------------------------------------ C6
\* C6: in every reachable tree no red node has a red child.
NoRedRed ==
    \A n \in InTree(tree) :
        tree.is_red_[n] =>
            \A c \in {tree.left_[n], tree.right_[n]} \ {NULL} : ~tree.is_red_[c]

\* an insert under a red parent was repaired: the new node is red, its parent
\* is black and the root has two levels below it
NoRedRedWitness ==
    /\ call.op = "insert"
    /\ Cardinality(InTree(tree)) = 4
    /\ \E n \in InTree(tree) :
         /\ tree.is_red_[n]
         /\ tree.parent_[n] # NULL
         /\ tree.parent_[n] # tree.root_

\* ------------------------------------------------------------ C7
\* C7: after every insert and every remove a non-empty tree has a black root.
RootBlack == tree.root_ # NULL => ~tree.is_red_[tree.root_]

\* a remove spliced a black node and left a non-empty tree
RootBlackWitness ==
    /\ call.op = "remove"
    /\ call.z # NULL
    /\ call.y_original_color = FALSE
    /\ tree.root_ # NULL

\* ------------------------------------------------------------ C8
\* C8: the multiset of intervals inorder visits is the multiset of the
\* inserted intervals minus the intervals of the nodes passed to remove;
\* insert adds exactly one node, remove(z) deletes exactly z.
ContentIsBag ==
    LET nodes == inorder_nodes(tree, tree.root_)
        io == inorder(tree)
    IN  /\ \A iv \in Interval : Count(io, iv) = bag[iv]
        /\ Len(nodes) = Cardinality(Range(nodes))
        /\ Range(nodes) = tree.heap
        /\ tree.heap = {h[1] : h \in handles}

\* one of two equal intervals was removed by a two-children remove, the other
\* is still stored
ContentIsBagWitness ==
    /\ call.op = "remove"
    /\ call.has_two_children
    /\ bag[call.interval] = 1
    /\ Cardinality(tree.heap) = 3

\* ------------------------------------------------------------ C10
\* C10: insert and remove(z) leave every node other than z in the tree with
\* the interval it was inserted with: every handle of a node not yet removed
\* refers to a node of the tree that holds the same interval.
HandlesStable ==
    LET stored == InTree(tree)
    IN  \A h \in handles :
            /\ h[1] \in stored
            /\ tree.interval_[h[1]] = h[2]

\* a two-children node was removed; the successor that took its place and at
\* least one more node are still held by handles
HandlesStableWitness ==
    /\ call.op = "remove"
    /\ call.has_two_children
    /\ Cardinality(handles) >= 2
    /\ tree.interval_[tree.root_] # call.interval

\* ------------------------------------------------------------ C11
\* C11: once every inserted node has been removed by its handle, in whatever
\* order, the tree has no root and inorder visits nothing; after cleanup() the
\* tree has no root, inorder visits nothing and no node is left allocated.
RoundTripEmpty ==
    /\ (call.op = "remove" /\ handles = {})
           => (tree.root_ = NULL /\ inorder(tree) = << >>)
    /\ call.op = "cleanup"
           => (tree.root_ = NULL /\ inorder(tree) = << >> /\ tree.heap = {})

\* cleanup() has just deleted three or more nodes
RoundTripEmptyWitness ==
    /\ call.op = "cleanup"
    /\ call.deleted >= 3
    /\ handles = {}

\* ------------------------------------------------------------ C12
\* C12: a call remove(nullptr) changes nothing: root, links, colours, max
\* values, intervals and the set of allocated nodes are the same before and
\* after, whatever the tree, the empty tree included.
RemoveNullNoOp ==
    [][(call'.op = "remove" /\ call'.z = NULL) => tree' = tree]_vars

\* remove(nullptr) has just returned on a tree of two or more nodes
RemoveNullNoOpWitness ==
    /\ call.op = "remove"
    /\ call.z = NULL
    /\ call.deleted = 0
    /\ Cardinality(InTree(tree)) >= 2

\* ------------------------------------------------------------ C13
\* C13: a.overlap(b) is true exactly when a.low <= b.high and b.low <= a.high;
\* it gives the same answer with the arguments exchanged, every well-formed
\* interval overlaps itself, two intervals that share only an endpoint
\* overlap, and the search the merge driver issues for b in a tree that holds
\* only a finds a exactly when the two overlap.
OverlapClosedSymmetric ==
    call.op = "overlap" =>
        /\ call.holds = (   call.interval.low_ <= call.other.high_
                         /\ call.other.low_ <= call.interval.high_)
        /\ call.holds = overlap(call.other, call.interval)
        /\ overlap(call.interval, call.interval)
        /\ call.interval.high_ = call.other.low_ => call.holds
        /\ call.holds = (search(insert(EmptyTree, call.interval), call.other) # NULL)

\* the pair of the driver's test, [1,4] and [4,5], was found to overlap
OverlapClosedSymmetricWitness ==
    /\ call.op = "overlap"
    /\ call.interval = [low_ |-> 1, high_ |-> 4]
    /\ call.other = [low_ |-> 4, high_ |-> 5]
    /\ call.holds

\* ------------------------------------------------------------ C14
\* C14: a call of inorder leaves root, links, colours, max values and
\* intervals as they were, hands the visitor one interval per node of the
\* tree (every node of the tree exactly once, every stored interval as often
\* as it is stored) and does so in non-decreasing order of low endpoint.
InorderFrame ==
    [][call'.op = "inorder" =>
          /\ tree' = tree
          /\ Len(call'.out) = Cardinality(tree.heap)
          /\ Range(inorder_nodes(tree, tree.root_)) = tree.heap
          /\ \A iv \in Interval : Count(call'.out, iv) = bag[iv]
          /\ \A k \in 1..(Len(call'.out) - 1) :
                call'.out[k].low_ <= call'.out[k + 1].low_]_vars

\* inorder has just visited three or more nodes that do not all have the
\* same key
InorderFrameWitness ==
    /\ call.op = "inorder"
    /\ Len(call.out) >= 3
    /\ call.out[1].low_ < call.out[Len(call.out)].low_

\* ------------------------------------------------------------ C16
\* C16: walk(q) hands its visitor exactly the stored intervals that overlap q,
\* each as often as it is stored, in non-decreasing order of low endpoint,
\* whatever the order of the inserts that built the tree.
WalkExact ==
    call.op = "walk" =>
        /\ \A iv \in Interval :
              Count(call.out, iv) = IF Overlaps(iv, call.interval) THEN bag[iv] ELSE 0
        /\ \A k \in 1..(Len(call.out) - 1) :
              call.out[k].low_ <= call.out[k + 1].low_

\* ------------------------------------------------------------ C17
\* the sum of f[0], ..., f[k]
RECURSIVE SumUpTo(_, _)
SumUpTo(f, k) == IF k < 0 THEN 0 ELSE f[k] + SumUpTo(f, k - 1)

\* how many positions of a sequence of (key, value) pairs hold the key k
CountKey(seq, k) == Cardinality({i \in 1..Len(seq) : seq[i][1] = k})

\* C17: after any sequence of add(key, value) and remove(key) isBST() is
\* true, the in-order keys are non-decreasing, and inorder visits as many
\* nodes as there were adds minus removes of a key that was present (key by
\* key as well as in total).
BstOrderedAndSized ==
    LET io == bst_inorder(bst)
    IN  /\ bst_isBST(bst, bst.root_)
        /\ \A i \in 1..(Len(io) - 1) : io[i][1] <= io[i + 1][1]
        /\ Len(io) = SumUpTo(bstbag, MaxBstKey)
        /\ \A k \in BstKeys : CountKey(io, k) = bstbag[k]

\* a node with two children was removed by its key; three nodes remain, two
\* of them with the same key
BstOrderedAndSizedWitness ==
    /\ call.op = "bst_remove"
    /\ call.has_two_children
    /\ Len(bst_inorder(bst)) = 3
    /\ \E k \in BstKeys : bstbag[k] = 2

\* ------------------------------------------------------------ C18
\* a sequence without its i-th element
RemoveAt(seq, i) == SubSeq(seq, 1, i - 1) \o SubSeq(seq, i + 1, Len(seq))

\* C18: remove(key) with a key stored in the tree takes away exactly one
\* (key, value) pair with that key and leaves every other pair as it was, so
\* the node count drops by exactly one; remove(key) with a key that is not
\* stored leaves the tree unchanged.
BstRemoveExact ==
    [][call'.op = "bst_remove" =>
          LET before == bst_inorder(bst)
              after == bst_inorder(bst')
          IN  IF \E i \in 1..Len(before) : before[i][1] = call'.key
              THEN /\ Len(after) = Len(before) - 1
                   /\ \E i \in 1..Len(before) :
                         /\ before[i][1] = call'.key
                         /\ after = RemoveAt(before, i)
              ELSE bst' = bst]_vars

\* a key stored twice was removed from a node with two children: one node
\* with that key is gone, the other is still stored, in a tree of three or
\* more nodes whose root has a right child with a left child
BstRemoveExactWitness ==
    /\ call.op = "bst_remove"
    /\ call.z # NULL
    /\ call.has_two_children
    /\ bstbag[call.key] = 1
    /\ Len(bst_inorder(bst)) >= 3
    /\ bst.right_[bst.root_] # NULL
    /\ bst.left_[bst.right_[bst.root_]] # NULL

\* ------------------------------------------------------------ C19
\* the five invariants of a red-black interval tree together
ValidTree ==
    /\ BSTOrdering
    /\ RootBlack
    /\ NoRedRed
    /\ BlackHeightUniform
    /\ AugmentationExact

\* no node has been removed so far: every node ever allocated is in the tree
InsertsOnly == Cardinality(tree.heap) = tree.allocated

\* C19: an insert into a tree that satisfies BST ordering, root black, no
\* red-red, equal black counts and exact max_ leaves a tree that satisfies
\* all five; hence every tree built by inserts only satisfies them.
InsertPreservesValid ==
    /\ [][(call'.op = "insert" /\ ValidTree) => ValidTree']_vars
    /\ [](InsertsOnly => ValidTree)

\* the fourth insert in a row has returned: its fixup met a red uncle or
\* rotated, and the tree is valid
InsertPreservesValidWitness ==
    /\ call.op = "insert"
    /\ InsertsOnly
    /\ Cardinality(tree.heap) >= 4
    /\ ValidTree
    /\ \E n \in tree.heap : tree.max_[n] > tree.interval_[n].high_

\* ------------------------------------------------------------ C15
\* C15: every call of insert, remove, search and cleanup that a caller starts
\* on a reachable tree comes back to the caller, and every time the merge
\* driver enters its inner loop for an input interval it gets to the insert
\* that follows the loop.
Termination ==
    /\ (frame.at \notin {"idle", "merge"}) ~> (frame.at = "idle")
    /\ (frame.at = "merge" /\ pc = "search") ~> (pc = "insert")

\* a remove has returned after its delete-fixup loop went round
TerminationWitness ==
    /\ frame.at = "idle"
    /\ frame.op = "remove"
    /\ "delete_fixup" \in frame.ran

\* ------------------------------------------------------------ C20
\* every child's parent_ is the node it hangs under, and root_ has no parent
LinksConsistentIn(t) ==
    /\ t.root_ # NULL => t.parent_[t.root_] = NULL
    /\ \A n \in InTree(t) :
          \A c \in {t.left_[n], t.right_[n]} \ {NULL} : t.parent_[c] = n

\* max_ is the largest high endpoint of the subtree, at every node of t
MaxExactIn(t) == \A n \in InTree(t) : t.max_[n] = SubtreeMaxHigh(t, n)

\* r is t after a rotation at x that promoted x's child y
RotatedWell(t, r, x, y) ==
    /\ inorder_nodes(r, r.root_) = inorder_nodes(t, t.root_)
    /\ LinksConsistentIn(r)
    /\ r.parent_[x] = y
    /\ r.parent_[y] = t.parent_[x]
    /\ r.max_[y] = t.max_[x]
    /\ MaxExactIn(t) => MaxExactIn(r)

\* C20: in every reachable tree, left_rotate(x) at any node x with a right
\* child and right_rotate(x) at any node x with a left child keep the
\* in-order sequence of nodes, leave parent links and root_ consistent with
\* the child links, give the promoted node the max_ x had, and keep max_
\* exact at every node if it was exact at every node.
RotationCorrect ==
    \A x \in tree.heap :
        /\ tree.right_[x] # NULL =>
              RotatedWell(tree, left_rotate(tree, x), x, tree.right_[x])
        /\ tree.left_[x] # NULL =>
              RotatedWell(tree, right_rotate(tree, x), x, tree.left_[x])

\* a tree with exact max_ holding a node x whose right child y has a left
\* child and carries x's max_ (left_rotate(x) moves y's left subtree and has
\* to lower x's max_), and a non-root node with a left child (right_rotate
\* there relinks the node's parent)
RotationCorrectWitness ==
    /\ MaxExactIn(tree)
    /\ \E x \in tree.heap :
          /\ tree.right_[x] # NULL
          /\ tree.left_[tree.right_[x]] # NULL
          /\ left_rotate(tree, x).max_[x] < tree.max_[x]
    /\ \E x \in tree.heap :
          /\ tree.parent_[x] # NULL
          /\ tree.left_[x] # NULL

\* ------------------------------------------------------------ C9
\* the union of iv with everything in S it is chained to by overlaps
RECURSIVE Absorb(_, _)
Absorb(iv, S) ==
    LET more == {j \in S : Overlaps(iv, j)
                           /\ ~(iv.low_ <= j.low_ /\ j.high_ <= iv.high_)}
    IN  IF more = {}
        THEN iv
        ELSE LET j == CHOOSE j \in more : TRUE
             IN  Absorb([low_ |-> Min2(iv.low_, j.low_),
                         high_ |-> Max2(iv.high_, j.high_)], S)

\* the maximal merged intervals of a set of intervals
Components(S) == {Absorb(iv, S) : iv \in S}

\* the intervals of S in ascending order of low endpoint
RECURSIVE Ascending(_)
Ascending(S) ==
    IF S = {}
    THEN << >>
    ELSE LET first == CHOOSE iv \in S : \A j \in S : iv.low_ <= j.low_
         IN  << first >> \o Ascending(S \ {first})

\* C9: when merge returns, its result is the list of the connected components
\* of the input under closed-interval overlap, pairwise non-overlapping and
\* in ascending order of low endpoint; an empty input gives an empty result
\* and an empty tree.
MergeCorrect ==
    pc = "done" =>
        /\ res = Ascending(Components(Range(input)))
        /\ \A k \in 1..(Len(res) - 1) : res[k].high_ < res[k + 1].low_
        /\ input = << >> => (res = << >> /\ tree.root_ = NULL)

\* merge returned after overlapping inputs were absorbed: more inputs than
\* components, two components, one of them wider than a single point
MergeCorrectWitness ==
    /\ pc = "done"
    /\ Len(input) > Len(res)
    /\ Len(res) = 2
    /\ \E k \in 1..Len(res) : res[k].low_ < res[k].high_

\* ------------------------------------------------------------ C26
\* C26: in every tree reachable by inserts and removes, every node's max_ is
\* at least the high endpoint of every interval stored in its subtree, its
\* own included, also where max_ is not exact.
MaxNeverUnder ==
    \A n \in InTree(tree) :
        \A m \in SubtreeNodes(tree, n) : tree.max_[n] >= tree.interval_[m].high_

\* a remove has left a max_ above the largest high endpoint of its subtree,
\* in a tree of three or more nodes
MaxNeverUnderWitness ==
    /\ call.op = "remove"
    /\ Cardinality(InTree(tree)) >= 3
    /\ \E n \in InTree(tree) : tree.max_[n] > SubtreeMaxHigh(tree, n)

\* ------------------------------------------------------------ C22
\* C22: if max_ is exact at every node and z has no child or one child, then
\* after remove(z) max_ is exact at every remaining node, and no remaining
\* node holds the INT_MIN placeholder.
RemoveLeafKeepsExact ==
    [][(/\ call'.op = "remove"
        /\ call'.z # NULL
        /\ ~call'.has_two_children
        /\ MaxExactIn(tree))
          => /\ MaxExactIn(tree')
             /\ \A n \in InTree(tree') : tree'.max_[n] # IntMin]_vars

\* the first remove after a run of inserts took out a node with at most one
\* child whose high endpoint was above every high endpoint that is left: the
\* max_ on the way to the root had to come down, and did
RemoveLeafKeepsExactWitness ==
    /\ call.op = "remove"
    /\ call.z # NULL
    /\ ~call.has_two_children
    /\ Cardinality(tree.heap) = tree.allocated - 1
    /\ Cardinality(tree.heap) >= 3
    /\ call.interval.high_ > tree.max_[tree.root_]
    /\ MaxExactIn(tree)

\* ------------------------------------------------------------ C23
\* the step of remove that unlinks z: it leaves the walk (z with at most one
\* child) or the second call of minimum (z with two children)
Splices ==
    /\ frame.op = "remove"
    /\ \/ frame.at = "walk" /\ ~frame.two
       \/ frame.at = "minimum" /\ frame.then = "splice"
    /\ frame'.at \notin {"walk", "minimum"}

\* the spliced node y: z itself, or the minimum of z's right subtree that the
\* second call of minimum has arrived at
SplicedNode == IF frame.two THEN frame.node ELSE frame.z

\* the parent a remaining node n of t has once y is spliced out and, when y
\* is not z, put where z was
SplicedParent(t, z, y, n) ==
    IF n = y
    THEN t.parent_[z]
    ELSE IF t.parent_[n] = y /\ t.parent_[y] # z
         THEN t.parent_[y]
         ELSE IF t.parent_[n] \in {y, z}
              THEN (IF y = z THEN t.parent_[z] ELSE y)
              ELSE t.parent_[n]

ParentAfterSplice(n) == SplicedParent(tree, frame.z, SplicedNode, n)

\* a sequence without its entries equal to v
RECURSIVE Without(_, _)
Without(seq, v) ==
    IF seq = << >>
    THEN << >>
    ELSE (IF seq[1] = v THEN << >> ELSE << seq[1] >>) \o Without(Tail(seq), v)

\* C23: remove enters delete-fixup exactly when the spliced node y (z with at
\* most one child, else the minimum of z's right subtree) was black; when y
\* was red remove returns without a rotation (every remaining node keeps its
\* parent, up to y being spliced out and taking z's position, and its place in
\* the in-order sequence) and without a colour change, except that y, when it
\* is not z, takes z's colour.
FixupGatedByColour ==
    [][Splices =>
         /\ (frame'.at = "delete_fixup") <=> ~tree.is_red_[SplicedNode]
         /\ tree.is_red_[SplicedNode] =>
              /\ frame'.at \in {"idle", "cleanup"}
              /\ tree'.heap = tree.heap \ {frame.z}
              /\ \A n \in tree'.heap :
                   /\ tree'.parent_[n] = ParentAfterSplice(n)
                   /\ tree'.is_red_[n] = IF n = SplicedNode
                                         THEN tree.is_red_[frame.z]
                                         ELSE tree.is_red_[n]
              /\ inorder_nodes(tree', tree'.root_)
                   = Without(inorder_nodes(tree, tree.root_), frame.z)
              /\ LinksConsistentIn(tree')]_vars

\* a remove of a node with two children, whose successor was not its right
\* child, has returned without a call of rb_delete_fixup, four or more nodes
\* are left
FixupGatedByColourWitness ==
    /\ frame.at = "idle"
    /\ frame.op = "remove"
    /\ "minimum" \in frame.ran
    /\ ~frame.fixup
    /\ Cardinality(tree.heap) >= 4

\* ------------------------------------------------------------ C30
\* root black, no red node with a red child, equal black counts
RedBlackValid == RootBlack /\ NoRedRed /\ BlackHeightUniform

\* what remove(z) does to a tree t that needs no fixup work: r is t with y
\* spliced out (and put where z was), x black if y was black, y in z's colour
SplicedOnly(t, z, y, x, r) ==
    /\ r.heap = t.heap \ {z}
    /\ \A n \in r.heap :
         /\ r.parent_[n] = SplicedParent(t, z, y, n)
         /\ r.is_red_[n] = IF n = x /\ ~t.is_red_[y]
                           THEN FALSE
                           ELSE IF n = y THEN t.is_red_[z] ELSE t.is_red_[n]
    /\ inorder_nodes(r, r.root_) = Without(inorder_nodes(t, t.root_), z)
    /\ LinksConsistentIn(r)

\* C30: when remove(z) is applied to a tree with a black root, no red node
\* with a red child and equal black counts on all paths, the condition of the
\* delete-fixup loop is false at its first test, no node is rotated, and no
\* colour changes except that x becomes black when the spliced node was black
\* and the successor takes z's colour.
NoFixupWorkOnValid ==
    [][(call'.op = "remove" /\ call'.z # NULL /\ RedBlackValid) =>
         /\ ~delete_fixup_cond(
                remove_splice(remove_update_max(tree, call'.z), call'.z),
                spliced_x(tree, call'.z))
         /\ SplicedOnly(tree, call'.z, spliced_y(tree, call'.z),
                        spliced_x(tree, call'.z), tree')]_vars

\* the first remove after a run of inserts took out a node with two children
\* whose successor was black and had a right child: rb_delete_fixup was
\* called on that child
NoFixupWorkOnValidWitness ==
    /\ call.op = "remove"
    /\ call.has_two_children
    /\ call.y_original_color = FALSE
    /\ call.x # NULL
    /\ Cardinality(tree.heap) = tree.allocated - 1

\* ------------------------------------------------------------ C27
\* following parent_ from n reaches an absent parent within k links
RECURSIVE ClimbsOut(_, _, _)
ClimbsOut(t, n, k) ==
    IF n = NULL THEN TRUE
    ELSE IF k = 0 THEN FALSE
         ELSE ClimbsOut(t, t.parent_[n], k - 1)

\* C27: after every insert and remove the allocated nodes form one binary
\* tree rooted at root_: root_ has no parent, every present child has its
\* parent_ at the node it hangs under, no node hangs under two nodes or on
\* both sides of one, the links have no cycle, every node inserted and not
\* removed is reached from root_, and no left_, right_ or parent_ link of a
\* remaining node refers to a removed node.
SingleTree ==
    /\ (tree.root_ = NULL) <=> (tree.heap = {})
    /\ tree.root_ # NULL => (tree.root_ \in tree.heap /\ tree.parent_[tree.root_] = NULL)
    /\ \A n \in tree.heap :
         /\ {tree.left_[n], tree.right_[n], tree.parent_[n]} \subseteq tree.heap \cup {NULL}
         /\ \A c \in {tree.left_[n], tree.right_[n]} \ {NULL} : tree.parent_[c] = n
         /\ tree.left_[n] # NULL => tree.left_[n] # tree.right_[n]
         /\ n # tree.root_ =>
              /\ tree.parent_[n] # NULL
              /\ n \in {tree.left_[tree.parent_[n]], tree.right_[tree.parent_[n]]}
         /\ ClimbsOut(tree, n, Cardinality(tree.heap))
    /\ tree.heap = {h[1] : h \in handles}
    /\ (call.op = "remove" /\ call.z # NULL) => call.z \notin tree.heap

\* a node with two children was removed, its successor had a right child
\* that was moved up, and at least three nodes remain
SingleTreeWitness ==
    /\ call.op = "remove"
    /\ call.has_two_children
    /\ call.x # NULL
    /\ Cardinality(tree.heap) >= 3

\* ------------------------------------------------------------ C24
\* the position of node v in seq (0 when it is not there)
RECURSIVE IndexOf(_, _)
IndexOf(seq, v) ==
    IF seq = << >> THEN 0
    ELSE IF seq[Len(seq)] = v /\ v \notin Range(SubSeq(seq, 1, Len(seq) - 1))
         THEN Len(seq)
         ELSE IndexOf(SubSeq(seq, 1, Len(seq) - 1), v)

\* nodes are numbered in the order they were allocated: among the nodes of t
\* with equal low endpoints the one inserted earlier is visited earlier
TiesInInsertionOrder(t) ==
    \A a, b \in InTree(t) :
        (a < b /\ t.interval_[a].low_ = t.interval_[b].low_)
            => IndexOf(inorder_nodes(t, t.root_), a) < IndexOf(inorder_nodes(t, t.root_), b)

\* C24: insert puts the new node after every stored node with an equal low
\* endpoint and leaves the other nodes in their in-order sequence; remove(z)
\* takes z out of the in-order sequence and leaves the others in sequence; so
\* nodes with equal low endpoints are visited in the order of their insertion.
InorderStable ==
    [][/\ call'.op = "insert" =>
            /\ Without(inorder_nodes(tree', tree'.root_), NewNode(tree))
                   = inorder_nodes(tree, tree.root_)
            /\ \A m \in InTree(tree) :
                   tree.interval_[m].low_ = call'.interval.low_
                     => IndexOf(inorder_nodes(tree', tree'.root_), m)
                          < IndexOf(inorder_nodes(tree', tree'.root_), NewNode(tree))
       /\ (call'.op = "remove" /\ call'.z # NULL) =>
            inorder_nodes(tree', tree'.root_)
                = Without(inorder_nodes(tree, tree.root_), call'.z)
       /\ TiesInInsertionOrder(tree')]_vars

\* three nodes with one low endpoint are stored after a node with two
\* children was removed, and the root is not the oldest of them
InorderStableWitness ==
    /\ call.op = "remove"
    /\ call.has_two_children
    /\ \E a, b, c \in tree.heap :
         /\ a < b /\ b < c
         /\ tree.interval_[a].low_ = tree.interval_[b].low_
         /\ tree.interval_[b].low_ = tree.interval_[c].low_
         /\ tree.root_ # a

\* ------------------------------------------------------------ C28
\* the intervals stored in t do not overlap each other
StoredDisjoint(t) ==
    \A a, b \in t.heap :
        a # b => /\ ~overlap(t.interval_[a], t.interval_[b])
                 /\ t.interval_[a].low_ # t.interval_[b].low_

\* [low, high] contains iv
CandidateContains(lo, hi, iv) == lo <= iv.low_ /\ iv.high_ <= hi

\* C28: after every step of merge the stored intervals are pairwise
\* non-overlapping and have pairwise distinct low endpoints; while an input
\* interval is processed the candidate (low, high) contains it, contains the
\* found interval from the moment it is absorbed, and only grows until it is
\* inserted, so it contains every interval it has absorbed.
MergeKeepsDisjoint ==
    [][/\ StoredDisjoint(tree')
       /\ pc' \in {"search", "remove", "insert"} =>
              CandidateContains(low', high', input'[Len(input')])
       /\ pc' = "remove" =>
              (rem' \in tree'.heap
                 /\ CandidateContains(low', high', tree'.interval_[rem']))
       /\ (pc = "remove" /\ pc' = "search") =>
              (rem \notin tree'.heap
                 /\ CandidateContains(low', high', call'.interval))
       /\ pc \in {"search", "remove", "insert"} =>
              (low' <= low /\ high <= high')]_vars

\* the candidate absorbed a stored interval that reached outside it, was
\* inserted wider than its input, and another interval is stored beside it
MergeKeepsDisjointWitness ==
    /\ pc = "next"
    /\ call.op = "insert"
    /\ call.interval # input[Len(input)]
    /\ Cardinality(tree.heap) >= 2

\* ------------------------------------------------------------ C29
\* C29: in every state of merge max_ is exact at every node of the tree, and
\* each search of the driver returns a node whose interval overlaps the
\* candidate whenever a stored interval overlaps it.
MergeMaxExact ==
    /\ MaxExactIn(tree)
    /\ (pc \in {"remove", "insert"} /\ call.op = "search") =>
         /\ (\E n \in tree.heap : overlap(tree.interval_[n], call.interval))
                => call.ret # NULL
         /\ call.ret # NULL =>
                (call.ret \in tree.heap
                   /\ overlap(tree.interval_[call.ret], call.interval))

\* of three stored intervals the driver removed the middle one, the root with
\* its two children, and the next search found nothing: the candidate lies
\* between the two intervals still stored
MergeMaxExactWitness ==
    /\ pc = "insert"
    /\ call.op = "search"
    /\ call.ret = NULL
    /\ tree.allocated = 3
    /\ \E n, m \in tree.heap :
         /\ tree.interval_[n].high_ < low
         /\ high < tree.interval_[m].low_

\* ------------------------------------------------------------ C21
\* n->left_, n->right_, n->parent_ and n->is_red_ where n is a node of t;
\* NULL (and not red) where it is not, so that the sets below can be formed
\* for any t
LeftOf(t, n) == IF n \in t.heap THEN t.left_[n] ELSE NULL

RightOf(t, n) == IF n \in t.heap THEN t.right_[n] ELSE NULL

ParentOf(t, n) == IF n \in t.heap THEN t.parent_[n] ELSE NULL

RedAt(t, n) == n \in t.heap /\ t.is_red_[n]

\* the nodes whose fields a rotation at x uses without a test: x and the
\* child y that is promoted
LeftRotateTouches(t, x) == {x, RightOf(t, x)}

RightRotateTouches(t, x) == {x, LeftOf(t, x)}

\* rb_insert_fixup, black or absent uncle, after node was made an outer child
OuterLeftTouches(t, node) ==
    {node, ParentOf(t, node)}
        \cup (IF ParentOf(t, ParentOf(t, node)) # NULL
              THEN RightRotateTouches(t, ParentOf(t, ParentOf(t, node)))
              ELSE {})

OuterRightTouches(t, node) ==
    {node, ParentOf(t, node)}
        \cup (IF ParentOf(t, ParentOf(t, node)) # NULL
              THEN LeftRotateTouches(t, ParentOf(t, ParentOf(t, node)))
              ELSE {})

CaseLeftTouches(t, node) ==
    IF node = RightOf(t, ParentOf(t, node))
    THEN IF LeftRotateTouches(t, ParentOf(t, node)) \subseteq t.heap
         THEN OuterLeftTouches(left_rotate(t, ParentOf(t, node)), ParentOf(t, node))
         ELSE LeftRotateTouches(t, ParentOf(t, node))
    ELSE OuterLeftTouches(t, node)

CaseRightTouches(t, node) ==
    IF node = LeftOf(t, ParentOf(t, node))
    THEN IF RightRotateTouches(t, ParentOf(t, node)) \subseteq t.heap
         THEN OuterRightTouches(right_rotate(t, ParentOf(t, node)), ParentOf(t, node))
         ELSE RightRotateTouches(t, ParentOf(t, node))
    ELSE OuterRightTouches(t, node)

\* the nodes one iteration of the loop of rb_insert_fixup dereferences: the
\* grandparent is read before anything tests it
InsertFixupTouches(t, node) ==
    LET p == ParentOf(t, node)
        g == ParentOf(t, ParentOf(t, node))
    IN  IF g \notin t.heap
        THEN {node, p, g}
        ELSE IF p = t.left_[g]
             THEN IF RedAt(t, t.right_[g])
                  THEN {node, p, g, t.right_[g]}
                  ELSE {node, p, g} \cup CaseLeftTouches(t, node)
             ELSE IF RedAt(t, t.left_[g])
                  THEN {node, p, g, t.left_[g]}
                  ELSE {node, p, g} \cup CaseRightTouches(t, node)

\* rb_delete_fixup, x a left child, the last case: w is read again, its far
\* child recoloured, the parent rotated
DeleteLeftFinishTouches(t, x) ==
    {ParentOf(t, x), RightOf(t, ParentOf(t, x)),
     RightOf(t, RightOf(t, ParentOf(t, x)))}
        \cup LeftRotateTouches(t, ParentOf(t, x))

DeleteRightFinishTouches(t, x) ==
    {ParentOf(t, x), LeftOf(t, ParentOf(t, x)),
     LeftOf(t, LeftOf(t, ParentOf(t, x)))}
        \cup RightRotateTouches(t, ParentOf(t, x))

\* a nephew of the black sibling w is red: the near nephew is recoloured and
\* w rotated when the far one is not red
DeleteLeftNephewTouches(t, x, w) ==
    IF ~RedAt(t, RightOf(t, w))
    THEN IF ({w, LeftOf(t, w)} \cup RightRotateTouches(t, w)) \subseteq t.heap
         THEN {w} \cup DeleteLeftFinishTouches(delete_left_near_red(t, x, w), x)
         ELSE {w, LeftOf(t, w)}
    ELSE {w} \cup DeleteLeftFinishTouches(t, x)

DeleteRightNephewTouches(t, x, w) ==
    IF ~RedAt(t, LeftOf(t, w))
    THEN IF ({w, RightOf(t, w)} \cup LeftRotateTouches(t, w)) \subseteq t.heap
         THEN {w} \cup DeleteRightFinishTouches(delete_right_near_red(t, x, w), x)
         ELSE {w, RightOf(t, w)}
    ELSE {w} \cup DeleteRightFinishTouches(t, x)

DeleteLeftBlackTouches(t, x, w) ==
    IF w = NULL \/ (~RedAt(t, LeftOf(t, w)) /\ ~RedAt(t, RightOf(t, w)))
    THEN {x, ParentOf(t, x)} \cup ({w} \ {NULL})
    ELSE DeleteLeftNephewTouches(t, x, w)

DeleteRightBlackTouches(t, x, w) ==
    IF w = NULL \/ (~RedAt(t, RightOf(t, w)) /\ ~RedAt(t, LeftOf(t, w)))
    THEN {x, ParentOf(t, x)} \cup ({w} \ {NULL})
    ELSE DeleteRightNephewTouches(t, x, w)

\* x a left child: the sibling w, rotated up when red, and the sibling read
\* again after that rotation
DeleteCaseLeftTouches(t, x) ==
    LET p == ParentOf(t, x)
        w == RightOf(t, ParentOf(t, x))
    IN  IF w = NULL
        THEN {x, p}
        ELSE IF RedAt(t, w)
             THEN IF LeftRotateTouches(t, p) \subseteq t.heap
                  THEN {x, p, w}
                         \cup DeleteLeftBlackTouches(
                                delete_left_red_sibling(t, x), x,
                                RightOf(delete_left_red_sibling(t, x), p))
                  ELSE LeftRotateTouches(t, p)
             ELSE {x, p, w} \cup DeleteLeftBlackTouches(t, x, w)

DeleteCaseRightTouches(t, x) ==
    LET p == ParentOf(t, x)
        w == LeftOf(t, ParentOf(t, x))
    IN  IF w = NULL
        THEN {x, p}
        ELSE IF RedAt(t, w)
             THEN IF RightRotateTouches(t, p) \subseteq t.heap
                  THEN {x, p, w}
                         \cup DeleteRightBlackTouches(
                                delete_right_red_sibling(t, x), x,
                                LeftOf(delete_right_red_sibling(t, x), p))
                  ELSE RightRotateTouches(t, p)
             ELSE {x, p, w} \cup DeleteRightBlackTouches(t, x, w)

\* the nodes one iteration of the loop of rb_delete_fixup dereferences
DeleteFixupTouches(t, x) ==
    IF ParentOf(t, x) \notin t.heap
    THEN {x, ParentOf(t, x)}
    ELSE IF x = t.left_[t.parent_[x]]
         THEN DeleteCaseLeftTouches(t, x)
         ELSE DeleteCaseRightTouches(t, x)

\* the nodes the splice of remove(z) dereferences: z, and with two children
\* the successor y, z's children and y's parent
SpliceTouches(t, z) ==
    IF LeftOf(t, z) # NULL /\ RightOf(t, z) # NULL
    THEN {z, LeftOf(t, z), RightOf(t, z), minimum(t, t.right_[z])}
            \cup (IF minimum(t, t.right_[z]) # t.right_[z]
                  THEN {ParentOf(t, minimum(t, t.right_[z]))}
                  ELSE {})
    ELSE {z}

\* C21: at every point of insert, search and remove (called with the handle
\* of a stored node), every node whose field the next step reads or writes
\* is a node of the tree: the cursor of each loop, the grandparent in
\* rb_insert_fixup, the root that is blackened at its end, the parent, the
\* sibling and the nephews in rb_delete_fixup, the promoted child in each
\* rotation, and z, its successor and their neighbours in the splice.
NoAbsentDereference ==
    /\ frame.at = "insert_descend" =>
         /\ frame.z \in tree.heap
         /\ {frame.node, frame.parent} \subseteq tree.heap \cup {NULL}
    /\ frame.at = "insert_fixup" =>
         /\ frame.node \in tree.heap
         /\ IF insert_fixup_cond(tree, frame.node)
            THEN InsertFixupTouches(tree, frame.node) \subseteq tree.heap
            ELSE tree.root_ \in tree.heap
    /\ frame.at = "search" => frame.node \in tree.heap \cup {NULL}
    /\ frame.at = "minimum" =>
         /\ frame.node \in tree.heap
         /\ frame.z \in tree.heap
         /\ (tree.left_[frame.node] = NULL /\ frame.then = "splice") =>
                SpliceTouches(tree, frame.z) \subseteq tree.heap
    /\ frame.at = "walk" =>
         /\ frame.node \in tree.heap \cup {NULL}
         /\ frame.z \in tree.heap
         /\ frame.node = NULL =>
              IF frame.two
              THEN {frame.successor, tree.right_[frame.z]} \subseteq tree.heap
              ELSE SpliceTouches(tree, frame.z) \subseteq tree.heap
    /\ frame.at = "delete_fixup" =>
         /\ frame.node \in tree.heap \cup {NULL}
         /\ frame.z \in tree.heap
         /\ delete_fixup_cond(tree, frame.node) =>
                DeleteFixupTouches(tree, frame.node) \subseteq tree.heap

\* the loop of rb_delete_fixup is about to run on a node whose sibling is
\* black and has a red child: the sibling and its children are recoloured
\* and the parent is rotated
NoAbsentDereferenceWitness ==
    /\ frame.at = "delete_fixup"
    /\ delete_fixup_cond(tree, frame.node)
    /\ \E w \in {tree.left_[tree.parent_[frame.node]],
                 tree.right_[tree.parent_[frame.node]]} \ {NULL, frame.node} :
         /\ ~tree.is_red_[w]
         /\ RedAt(tree, tree.left_[w]) \/ RedAt(tree, tree.right_[w])

\* ------------------------------------------------------------ C25
\* the shape of t: the root and the three links of every node
LinksOf(t) == << t.root_, t.left_, t.right_, t.parent_ >>

\* the trees one rotation away from t
OneRotation(t) ==
    {left_rotate(t, x) : x \in {n \in t.heap : t.right_[n] # NULL}}
        \cup {right_rotate(t, x) : x \in {n \in t.heap : t.left_[n] # NULL}}

\* the least number of rotations that give t the shape of r (3: more than 2)
RotationDistance(t, r) ==
    IF LinksOf(r) = LinksOf(t) THEN 0
    ELSE IF \E u \in OneRotation(t) : LinksOf(u) = LinksOf(r) THEN 1
    ELSE IF \E u \in OneRotation(t) :
               \E v \in OneRotation(u) : LinksOf(v) = LinksOf(r) THEN 2
    ELSE 3

\* the uncle of node: the other child of its grandparent
UncleOf(t, node) ==
    IF ParentOf(t, node) = LeftOf(t, ParentOf(t, ParentOf(t, node)))
    THEN RightOf(t, ParentOf(t, ParentOf(t, node)))
    ELSE LeftOf(t, ParentOf(t, ParentOf(t, node)))

\* C25: within one insert, the descent, the linking of the new node and the
\* end of rb_insert_fixup rotate nothing; an iteration of the fixup loop that
\* finds a red uncle rotates nothing, makes parent and uncle black and the
\* grandparent red and goes on at the grandparent; an iteration that finds a
\* black or absent uncle leaves the tree one or two rotations away, with the
\* parent of the current node black, so that the loop ends there: one insert
\* rotates at most twice.
InsertFixupRotations ==
    [][/\ (frame.at = "insert_descend" /\ frame.node # NULL) =>
              LinksOf(tree') = LinksOf(tree)
       /\ (frame.at = "insert_descend" /\ frame.node = NULL) =>
              \A n \in tree.heap \ {frame.z} :
                  /\ tree'.parent_[n] = tree.parent_[n]
                  /\ tree'.left_[n] \in {tree.left_[n], frame.z}
                  /\ tree'.right_[n] \in {tree.right_[n], frame.z}
       /\ (frame.at = "insert_fixup" /\ ~insert_fixup_cond(tree, frame.node)) =>
              LinksOf(tree') = LinksOf(tree)
       /\ (frame.at = "insert_fixup" /\ insert_fixup_cond(tree, frame.node)) =>
              IF RedAt(tree, UncleOf(tree, frame.node))
              THEN /\ RotationDistance(tree, tree') = 0
                   /\ frame'.at = "insert_fixup"
                   /\ frame'.node = tree.parent_[tree.parent_[frame.node]]
                   /\ tree'.is_red_ =
                        [tree.is_red_ EXCEPT
                           ![tree.parent_[frame.node]] = FALSE,
                           ![UncleOf(tree, frame.node)] = FALSE,
                           ![tree.parent_[tree.parent_[frame.node]]] = TRUE]
              ELSE /\ RotationDistance(tree, tree') \in {1, 2}
                   /\ frame'.at = "insert_fixup"
                   /\ ParentOf(tree', frame'.node) # NULL
                   /\ ~RedAt(tree', ParentOf(tree', frame'.node))
                   /\ ~insert_fixup_cond(tree', frame'.node)]_vars

\* insert returned after its fixup loop ran, and the node it inserted now
\* has both the node that was its parent and the node that was its
\* grandparent as children: an inner child, rotated twice
InsertFixupRotationsWitness ==
    /\ frame.at = "idle"
    /\ frame.op = "insert"
    /\ "insert_fixup" \in frame.ran
    /\ Cardinality(tree.heap) >= 3
    /\ \E n \in tree.heap :
         /\ n = tree.allocated
         /\ tree.left_[n] # NULL
         /\ tree.right_[n] # NULL

====
